---- MODULE Spec2Model ----
(***************************************************************************)
(* Model of the query-building layer of the RBAC admin backend:            *)
(* backend/app/core/query_builder.py (filter strategies, QueryBuilder,     *)
(* PaginatedQueryBuilder, create_user_query_builder), of request handlers  *)
(* that use one builder (repositories/sys_user_repository.py), and of the  *)
(* field-mapping layer: backend/app/utils/field_mapper.py (FieldMapper)    *)
(* with the mappers of backend/app/services/mappers built on it.           *)
(*                                                                         *)
(* Python values are tagged records of one shape, so that any two of them  *)
(* can be compared.  A SQLAlchemy Select is the record of what was added   *)
(* to it: the predicates passed to .filter() (ANDed, in call order), the   *)
(* ORDER BY directives, and the LIMIT/OFFSET window.                       *)
(***************************************************************************)
EXTENDS Integers, Sequences, FiniteSets, TLC

VARIABLES
    strategies,   \* QueryBuilder.strategies : key -> strategy
    conditions,   \* QueryBuilder.conditions : sequence of [key, value]
    offset_,      \* PaginatedQueryBuilder._offset
    limit_,       \* PaginatedQueryBuilder._limit
    order_by_,    \* PaginatedQueryBuilder._order_by
    ret,          \* what the last call returned (self, a query, or an exception)
    kwargsLog,    \* history: every key/value pair ever passed to filter()
    regLog,       \* history: every registration call made on the builder
    orderLog,     \* history: every argument ever passed to order_by()
    requests,     \* request -> where its handler is, its arguments, its query
    mappings,     \* FieldMapper._mappings : backend name -> frontend name
    reverse_mappings,  \* FieldMapper._reverse_mappings : frontend name -> backend name
    heap,         \* the dicts and lists the mappers are given and return, by address
    callLog,      \* history: the calls made on the mapper, with argument and outcome
    redis,        \* RedisService: login_failures, account_lock and refresh_token keys
    clock,        \* datetime.utcnow(), in whole seconds as a JWT exp carries it
    attempts,     \* history: failed password attempts per username since the last success
    sys_dept      \* the sys_dept table: id -> parent_id of the rows that exist

\* the fields of the builder, and the histories of the calls on it
builderVars == <<strategies, conditions, offset_, limit_, order_by_, ret,
                 kwargsLog, regLog, orderLog>>

\* the state of the services behind the login and department endpoints
serviceVars == <<redis, clock, attempts, sys_dept>>

\* the variables that no method of the builder touches
outsideBuilder == <<requests, mappings, reverse_mappings, heap, callLog, serviceVars>>

vars == <<builderVars, outsideBuilder>>

(***************************************************************************)
(* Bounds of the model.                                                    *)
(***************************************************************************)
MaxConds == 2          \* pairs passed to filter() in Spec
MaxStrategyConds == 1  \* pairs passed to filter() in SpecStrategy
MaxStrategyRegs == 1   \* register_strategy calls in SpecStrategy
MaxRegs == 2           \* registration calls after the factory in SpecRegister
MaxOrderItems == 3     \* directives passed to order_by in SpecPaginate, the factory's included
MaxPageConds == 1      \* pairs passed to filter() in SpecPaginate
NumRequests == 2       \* requests served by the one builder in SpecShared
MaxBareConds == 2      \* pairs passed to filter() in SpecBare
MaxRegistrations == 2  \* register_mapping / batch_register_mappings calls in SpecTables
MaxConversions == 2    \* backend_to_frontend / frontend_to_backend calls in SpecConvert
MaxNest == 12          \* containers nested in one another in SpecConvert
MaxCaseCalls == 2      \* to_snake_case / to_camel_case calls in SpecCase
MaxFormatCalls == 2    \* calls on the mappers in SpecFormat
MaxNameLen == 4        \* characters of the names given to the case conversion in SpecCase
MaxFailures == 6       \* the value login_failures and the attempt history may reach in SpecLogin
MaxClock == 1          \* seconds that pass in SpecRefresh
MaxExchanges == 2      \* /refresh-token requests in SpecRefresh
MaxDepts == 3          \* rows of sys_dept in SpecDept

\* timedelta(days=1) in seconds
DaySecs == 86400

Range(seq) == { seq[i] : i \in DOMAIN seq }

(***************************************************************************)
(* Python values.                                                          *)
(***************************************************************************)
DictKeys == {"start", "end", "min", "max"}

\* a scalar: None, bool, int, str, datetime (i = seconds), date (i = day
\* number); "absent" marks a key a dict does not hold
Scalar(t, i, s) == [t |-> t, i |-> i, s |-> s]
NoneS == Scalar("none", 0, "")
AbsentS == Scalar("absent", 0, "")
BoolS(b) == Scalar("bool", IF b THEN 1 ELSE 0, "")
IntS(n) == Scalar("int", n, "")
StrS(s) == Scalar("str", 0, s)
DateTimeS(day, sec) == Scalar("datetime", day * DaySecs + sec, "")
DateS(day) == Scalar("date", day, "")

NoDict == [k \in DictKeys |-> AbsentS]

Value(t, i, s, items, d) == [t |-> t, i |-> i, s |-> s, items |-> items, d |-> d]
Lift(x) == Value(x.t, x.i, x.s, <<>>, NoDict)
NoneV == Lift(NoneS)
BoolV(b) == Lift(BoolS(b))
IntV(n) == Lift(IntS(n))
StrV(s) == Lift(StrS(s))
ListV(items) == Value("list", 0, "", items, NoDict)
DictV(d) == Value("dict", 0, "", <<>>, d)
\* {"start": a, "end": b} and {"min": a, "max": b}; AbsentS leaves the key out
RangeDict(a, b) == DictV([k \in DictKeys |-> IF k = "start" THEN a ELSE IF k = "end" THEN b ELSE AbsentS])
MinMaxDict(a, b) == DictV([k \in DictKeys |-> IF k = "min" THEN a ELSE IF k = "max" THEN b ELSE AbsentS])

\* the scalar a Value stands for (its dict and list parts dropped)
Lower1(v) == Scalar(v.t, v.i, v.s)

\* dict.get(key): None when the key is missing
DictGet(v, k) == IF v.d[k].t = "absent" THEN NoneS ELSE v.d[k]

\* bool(x) for a scalar
Truthy(x) ==
    CASE x.t = "none" -> FALSE
      [] x.t = "absent" -> FALSE
      [] x.t = "bool" -> x.i = 1
      [] x.t = "int" -> x.i # 0
      [] x.t = "str" -> x.s # ""
      [] OTHER -> TRUE

\* value is not None and value != ""
NotNoneNotEmptyStr(v) == v.t # "none" /\ ~(v.t = "str" /\ v.s = "")

\* isinstance(value, list) and not value
IsEmptyList(v) == v.t = "list" /\ v.items = <<>>

\* str.lower() on the strings of the model
StrLower(s) ==
    CASE s = "TRUE" -> "true"
      [] s = "True" -> "true"
      [] s = "YES" -> "yes"
      [] s = "Yes" -> "yes"
      [] s = "FALSE" -> "false"
      [] s = "ADM" -> "adm"
      [] OTHER -> s

\* str(x) of a scalar, as an f-string formats it
ScalarStr(x) ==
    CASE x.t = "none" -> "None"
      [] x.t = "absent" -> "None"
      [] x.t = "bool" -> (IF x.i = 1 THEN "True" ELSE "False")
      [] x.t = "int" -> ToString(x.i)
      [] x.t = "str" -> x.s
      [] x.t = "datetime" -> "datetime@" \o ToString(x.i)
      [] OTHER -> "date@" \o ToString(x.i)

RECURSIVE JoinInts(_)
JoinInts(items) ==
    IF items = <<>> THEN ""
    ELSE IF Len(items) = 1 THEN ToString(items[1])
    ELSE ToString(items[1]) \o ", " \o JoinInts(Tail(items))

\* f"{value}"
PyStr(v) ==
    CASE v.t = "list" -> "[" \o JoinInts(v.items) \o "]"
      [] v.t = "dict" ->
            "{" \o ScalarStr(v.d["start"]) \o ", " \o ScalarStr(v.d["end"]) \o ", "
                \o ScalarStr(v.d["min"]) \o ", " \o ScalarStr(v.d["max"]) \o "}"
      [] OTHER -> ScalarStr(Lower1(v))

(***************************************************************************)
(* Queries (sqlalchemy Select) and predicates.                             *)
(***************************************************************************)
Pred(op, fields, v) == [op |-> op, fields |-> fields, v |-> v]

\* select(SysUser): no predicate, no ordering, no window
BaseQuery == [whereclause |-> <<>>, order_by |-> <<>>, limited |-> FALSE,
              limit |-> NoneS, offset |-> NoneS]

\* Select.filter(pred): one more ANDed predicate
QFilter(query, pred) == [query EXCEPT !.whereclause = Append(@, pred)]

Ok(query) == [raised |-> FALSE, query |-> query]
Raised(query) == [raised |-> TRUE, query |-> query]

(***************************************************************************)
(* The entity the builders are constructed for.                            *)
(***************************************************************************)
\* the attributes hasattr(SysUser, name) finds
SysUser == {"id", "username", "nickname", "gender", "password", "dept_id", "avatar",
            "mobile", "status", "email", "create_time", "create_by", "update_time",
            "update_by", "is_deleted", "openid", "roles"}

\* an ORDER BY directive: a column ("col"), column.asc() or column.desc()
Directive(field, dir) == [field |-> field, dir |-> dir]

(***************************************************************************)
(* Filter strategies.  A strategy is its class and the columns it holds;   *)
(* apply returns the new query, or the query it had when it raised.        *)
(***************************************************************************)
Strategy(kind, fields) == [kind |-> kind, fields |-> fields]
EqualFilter(field) == Strategy("EqualFilter", <<field>>)
NotEqualFilter(field) == Strategy("NotEqualFilter", <<field>>)
LikeFilter(field) == Strategy("LikeFilter", <<field>>)
MultiFieldKeywordFilter(fields) == Strategy("MultiFieldKeywordFilter", fields)
DateTimeRangeFilter(field) == Strategy("DateTimeRangeFilter", <<field>>)
ValueRangeFilter(field) == Strategy("ValueRangeFilter", <<field>>)
InFilter(field) == Strategy("InFilter", <<field>>)
BooleanFilter(field) == Strategy("BooleanFilter", <<field>>)

\* BaseFilterStrategy.validate, inherited unchanged by every strategy
validate(self, value) == NotNoneNotEmptyStr(value)

EqualFilter_apply(self, query, value) ==
    Ok(QFilter(query, Pred("eq", self.fields, value)))

NotEqualFilter_apply(self, query, value) ==
    Ok(QFilter(query, Pred("ne", self.fields, value)))

LikeFilter_apply(self, query, value) ==
    Ok(QFilter(query, Pred("ilike", self.fields, StrV("%" \o PyStr(value) \o "%"))))

\* or_(f1.ilike(p), ..., fn.ilike(p)): one predicate over all the fields
MultiFieldKeywordFilter_apply(self, query, value) ==
    Ok(QFilter(query, Pred("or_ilike", self.fields, StrV("%" \o PyStr(value) \o "%"))))

\* x + timedelta(days, seconds): defined for datetime and date only; a date
\* takes the days of the timedelta and ignores its seconds
SupportsTimedelta(x) == x.t \in {"datetime", "date"}
AddTimedelta(x, days, seconds) ==
    IF x.t = "datetime" THEN Scalar("datetime", x.i + days * DaySecs + seconds, "")
    ELSE Scalar("date", x.i + days, "")
SubTimedelta(x, days, seconds) ==
    IF x.t = "datetime" THEN Scalar("datetime", x.i - days * DaySecs - seconds, "")
    ELSE Scalar("date", x.i - days, "")

\* end + timedelta(days=1) - timedelta(seconds=1)
AdjustedEnd(end) == SubTimedelta(AddTimedelta(end, 1, 0), 0, 1)

DateTimeRangeFilter_apply(self, query, value) ==
    IF value.t = "dict"
    THEN LET start == DictGet(value, "start")
             end == DictGet(value, "end")
             q1 == IF Truthy(start)
                   THEN QFilter(query, Pred("ge", self.fields, Lift(start)))
                   ELSE query
         IN  IF Truthy(end)
             THEN IF SupportsTimedelta(end)
                  THEN Ok(QFilter(q1, Pred("le", self.fields, Lift(AdjustedEnd(end)))))
                  ELSE Raised(q1)     \* TypeError from end + timedelta
             ELSE Ok(q1)
    ELSE Ok(query)

ValueRangeFilter_apply(self, query, value) ==
    IF value.t = "dict"
    THEN LET min_val == DictGet(value, "min")
             max_val == DictGet(value, "max")
             q1 == IF min_val.t # "none"
                   THEN QFilter(query, Pred("ge", self.fields, Lift(min_val)))
                   ELSE query
         IN  IF max_val.t # "none"
             THEN Ok(QFilter(q1, Pred("le", self.fields, Lift(max_val))))
             ELSE Ok(q1)
    ELSE Ok(query)

\* InFilter.apply testing only the type of the value, not its emptiness
InFilter_apply_AnyList(self, query, value) ==
    IF value.t = "list"
    THEN Ok(QFilter(query, Pred("in", self.fields, value)))
    ELSE Ok(query)

InFilter_apply(self, query, value) ==
    IF value.t = "list" /\ value.items # <<>>
    THEN Ok(QFilter(query, Pred("in", self.fields, value)))
    ELSE Ok(query)

\* BooleanFilter.apply comparing the string as written, without lower()
BooleanFilter_apply_NoLower(self, query, value) ==
    CASE value.t = "bool" ->
            Ok(QFilter(query, Pred("eq", self.fields, value)))
      [] value.t = "int" ->
            Ok(QFilter(query, Pred("eq", self.fields, BoolV(value.i = 1))))
      [] value.t = "str" ->
            Ok(QFilter(query, Pred("eq", self.fields,
                                   BoolV(value.s \in {"true", "1", "yes"}))))
      [] OTHER -> Ok(query)

BooleanFilter_apply(self, query, value) ==
    CASE value.t = "bool" ->
            Ok(QFilter(query, Pred("eq", self.fields, value)))
      [] value.t = "int" ->
            Ok(QFilter(query, Pred("eq", self.fields, BoolV(value.i = 1))))
      [] value.t = "str" ->
            Ok(QFilter(query, Pred("eq", self.fields,
                                   BoolV(StrLower(value.s) \in {"true", "1", "yes"}))))
      [] OTHER -> Ok(query)

\* strategy.apply(query, value), dispatched on the strategy's class
apply(self, query, value) ==
    CASE self.kind = "EqualFilter" -> EqualFilter_apply(self, query, value)
      [] self.kind = "NotEqualFilter" -> NotEqualFilter_apply(self, query, value)
      [] self.kind = "LikeFilter" -> LikeFilter_apply(self, query, value)
      [] self.kind = "MultiFieldKeywordFilter" -> MultiFieldKeywordFilter_apply(self, query, value)
      [] self.kind = "DateTimeRangeFilter" -> DateTimeRangeFilter_apply(self, query, value)
      [] self.kind = "ValueRangeFilter" -> ValueRangeFilter_apply(self, query, value)
      [] self.kind = "InFilter" -> InFilter_apply(self, query, value)
      [] OTHER -> BooleanFilter_apply(self, query, value)

(***************************************************************************)
(* How the storage evaluates the range predicates on create_time.          *)
(***************************************************************************)
\* a bound compared with the DateTime column: a date is midnight of its day
TimestampOf(v) == IF v.t = "date" THEN v.i * DaySecs ELSE v.i

\* whether a row with this create_time satisfies a predicate on create_time
PredHolds(pred, create_time) ==
    CASE pred.op = "ge" -> create_time >= TimestampOf(pred.v)
      [] pred.op = "le" -> create_time <= TimestampOf(pred.v)
      [] OTHER -> TRUE

\* whether the query selects a row with this create_time, its other columns
\* satisfying the query's other predicates
RowMatches(query, create_time) ==
    \A i \in DOMAIN query.whereclause :
        query.whereclause[i].fields = <<"create_time">>
            => PredHolds(query.whereclause[i], create_time)

(***************************************************************************)
(* QueryBuilder.                                                           *)
(***************************************************************************)
NoStrategy == Strategy("", <<>>)
EmptyTable == [k \in {} |-> NoStrategy]

\* register_strategy as setdefault: a name already registered keeps its strategy
register_strategy_KeepFirst(table, name, strategy) ==
    IF name \in DOMAIN table THEN table ELSE (name :> strategy) @@ table

\* self.strategies[name] = strategy
register_strategy(table, name, strategy) == (name :> strategy) @@ table

\* config.get(flag, default)
ConfigGet(config, flag, default) ==
    IF flag \in DOMAIN config THEN config[flag] ELSE default

\* the body of auto_register_field_strategies' loop, for one field
AutoRegisterField(table, model_class, field_name, config) ==
    IF field_name \in model_class
    THEN LET t1 == IF ConfigGet(config, "allow_equal", TRUE)
                   THEN register_strategy(table, field_name \o "__eq", EqualFilter(field_name))
                   ELSE table
             t2 == IF ConfigGet(config, "allow_not_equal", FALSE)
                   THEN register_strategy(t1, field_name \o "__ne", NotEqualFilter(field_name))
                   ELSE t1
             t3 == IF ConfigGet(config, "allow_like", FALSE)
                   THEN register_strategy(t2, field_name \o "__like", LikeFilter(field_name))
                   ELSE t2
         IN  IF ConfigGet(config, "allow_range", FALSE)
             THEN register_strategy(t3, field_name \o "__range", ValueRangeFilter(field_name))
             ELSE t3
    ELSE table

\* fields_config is the dict's items, in insertion order
RECURSIVE auto_register_field_strategies(_, _, _)
auto_register_field_strategies(table, model_class, fields_config) ==
    IF fields_config = <<>> THEN table
    ELSE auto_register_field_strategies(
             AutoRegisterField(table, model_class, fields_config[1].field, fields_config[1].config),
             model_class, Tail(fields_config))

\* filter() with "if value:" as its test: 0 and False are dropped too
filter_keeps_truthy(value) ==
    CASE value.t = "list" -> value.items # <<>>
      [] value.t = "dict" -> \E k \in DictKeys : value.d[k].t # "absent"
      [] OTHER -> Truthy(Lower1(value))

\* the test of filter() that decides whether a pair becomes a condition
filter_keeps(value) == NotNoneNotEmptyStr(value) /\ ~IsEmptyList(value)

\* filter() on a builder that starts every call from an empty condition list
filter_OwnList(conds, kwargs) == SelectSeq(kwargs, LAMBDA p : filter_keeps(p.value))

\* filter(**kwargs): kwargs is the dict's items, in insertion order
RECURSIVE filter(_, _)
filter(conds, kwargs) ==
    IF kwargs = <<>> THEN conds
    ELSE filter(IF filter_keeps(kwargs[1].value)
                THEN Append(conds, [key |-> kwargs[1].key, value |-> kwargs[1].value])
                ELSE conds,
                Tail(kwargs))

\* build()'s loop body without the "key in self.strategies" test: an
\* unknown key is a KeyError
BuildStep_KeyError(table, base_query, query, condition) ==
    IF condition.key \in DOMAIN table
    THEN IF validate(table[condition.key], condition.value)
         THEN apply(table[condition.key], query, condition.value)
         ELSE Ok(query)
    ELSE Raised(query)

\* build()'s loop body applying each strategy to base_query instead of to
\* the query built so far
BuildStep_FromBase(table, base_query, query, condition) ==
    IF condition.key \in DOMAIN table
    THEN IF validate(table[condition.key], condition.value)
         THEN apply(table[condition.key], base_query, condition.value)
         ELSE Ok(query)
    ELSE Ok(query)

\* the body of build()'s loop: query is the query built so far
BuildStep(table, base_query, query, condition) ==
    IF condition.key \in DOMAIN table
    THEN IF validate(table[condition.key], condition.value)
         THEN apply(table[condition.key], query, condition.value)
         ELSE Ok(query)
    ELSE Ok(query)

\* build(base_query); an exception raised by a strategy ends the loop
RECURSIVE BuildFrom(_, _, _, _)
BuildFrom(table, base_query, query, conds) ==
    IF conds = <<>> THEN Ok(query)
    ELSE LET r == BuildStep(table, base_query, query, conds[1])
         IN  IF r.raised THEN r
             ELSE BuildFrom(table, base_query, r.query, Tail(conds))

build(table, conds, base_query) == BuildFrom(table, base_query, base_query, conds)

(***************************************************************************)
(* PaginatedQueryBuilder.                                                  *)
(***************************************************************************)
\* order_by's loop body without the hasattr test
OrderByItem_NoHasattr(order, model_class, item) ==
    IF item.dir = "name"
    THEN Append(order, Directive(item.field, "col"))
    ELSE Append(order, item)

\* order_by's loop body: item is a column name (dir = "name") or a directive
OrderByItem(order, model_class, item) ==
    IF item.dir = "name"
    THEN IF item.field \in model_class
         THEN Append(order, Directive(item.field, "col"))
         ELSE order
    ELSE Append(order, item)

RECURSIVE order_by(_, _, _)
order_by(order, model_class, fields) ==
    IF fields = <<>> THEN order
    ELSE order_by(OrderByItem(order, model_class, fields[1]), model_class, Tail(fields))

\* what build_paginated adds to the query build() returned
ApplyWindow(query, order, limit, offset) ==
    LET q1 == IF order # <<>>
              THEN [query EXCEPT !.order_by = @ \o order]
              ELSE query
    IN  IF Truthy(limit)
        THEN [q1 EXCEPT !.limited = TRUE, !.limit = limit, !.offset = offset]
        ELSE q1

build_paginated(table, conds, order, limit, offset, base_query) ==
    LET r == build(table, conds, base_query)
    IN  IF r.raised THEN r ELSE Ok(ApplyWindow(r.query, order, limit, offset))

(***************************************************************************)
(* create_user_query_builder.                                              *)
(***************************************************************************)
FieldConfig(field, config) == [field |-> field, config |-> config]

UserFieldsConfig ==
    << FieldConfig("username", [allow_equal |-> TRUE, allow_like |-> TRUE]),
       FieldConfig("nickname", [allow_equal |-> TRUE, allow_like |-> TRUE]),
       FieldConfig("email", [allow_equal |-> TRUE, allow_like |-> TRUE]),
       FieldConfig("mobile", [allow_equal |-> TRUE, allow_like |-> TRUE]),
       FieldConfig("status", [allow_equal |-> TRUE, allow_range |-> TRUE]),
       FieldConfig("gender", [allow_equal |-> TRUE, allow_range |-> TRUE]),
       FieldConfig("dept_id", [allow_equal |-> TRUE, allow_in |-> TRUE]) >>

\* a registration call, as the history records it
RegCall(name, strategy) == [op |-> "register", name |-> name, strategy |-> strategy, cfg |-> <<>>]
AutoCall(cfg) == [op |-> "auto", name |-> "", strategy |-> NoStrategy, cfg |-> cfg]

\* the registration calls the factory makes, in order
FactoryCalls ==
    << AutoCall(UserFieldsConfig),
       RegCall("keywords", MultiFieldKeywordFilter(<<"username", "nickname", "mobile">>)),
       RegCall("create_time_range", DateTimeRangeFilter("create_time")),
       RegCall("status__in", InFilter("status")),
       RegCall("dept_id__in", InFilter("dept_id")) >>

\* one registration call applied to the table
ApplyRegCall(table, model_class, call) ==
    IF call.op = "auto"
    THEN auto_register_field_strategies(table, model_class, call.cfg)
    ELSE register_strategy(table, call.name, call.strategy)

RECURSIVE ApplyRegCalls(_, _, _)
ApplyRegCalls(table, model_class, calls) ==
    IF calls = <<>> THEN table
    ELSE ApplyRegCalls(ApplyRegCall(table, model_class, calls[1]), model_class, Tail(calls))

\* PaginatedQueryBuilder(model_class), as __init__ leaves it
PaginatedQueryBuilder ==
    [strategies |-> EmptyTable,
     conditions |-> <<>>,
     offset |-> IntS(0),
     limit |-> IntS(100),
     order_by |-> <<>>]

\* a builder that holds a condition from an earlier call
create_user_query_builder_Used ==
    [strategies |-> ApplyRegCalls(EmptyTable, SysUser, FactoryCalls),
     conditions |-> <<[key |-> "status__eq", value |-> IntV(0)]>>,
     offset |-> IntS(0),
     limit |-> IntS(100),
     order_by |-> <<Directive("create_time", "desc")>>]

\* the builder the factory returns
create_user_query_builder ==
    [PaginatedQueryBuilder EXCEPT
        !.strategies = ApplyRegCalls(@, SysUser, FactoryCalls),
        !.order_by = order_by(@, SysUser, <<Directive("create_time", "desc")>>)]

(***************************************************************************)
(* UserRepository: the list methods and their use of the builder.          *)
(***************************************************************************)
\* str.upper() on the strings of the model
StrUpper(s) ==
    CASE s = "asc" -> "ASC"
      [] s = "Asc" -> "ASC"
      [] s = "desc" -> "DESC"
      [] OTHER -> s

\* filters.get(key, default)
KwargsGet(kwargs, key, default) ==
    LET found == SelectSeq(kwargs, LAMBDA p : p.key = key)
    IN  IF found = <<>> THEN default ELSE found[Len(found)].value

\* the keys of field_mapping in list_all_with_count
SortColumns == {"create_time", "update_time", "username", "nickname", "gender",
                "status", "mobile", "email", "dept_id"}

\* the sort block of list_all_with_count, on the _order_by of its builder:
\* None.upper() raises AttributeError
sort_order(order, filters) ==
    LET sort_field == KwargsGet(filters, "sort_field", NoneV)
        sort_direction == KwargsGet(filters, "sort_direction", StrV("DESC"))
    IN  IF ~Truthy(Lower1(sort_field)) \/ sort_field.s \notin SortColumns
        THEN [raised |-> FALSE, order |-> order]
        ELSE IF sort_direction.t # "str"
        THEN [raised |-> TRUE, order |-> order]
        ELSE [raised |-> FALSE,
              order |-> order_by(order, SysUser,
                                 <<Directive(sort_field.s,
                                             IF StrUpper(sort_direction.s) = "ASC"
                                             THEN "asc" ELSE "desc")>>)]

(***************************************************************************)
(* FieldMapper.  A field name is the sequence of its characters; a Python  *)
(* dict is the sequence of its items in insertion order.                   *)
(***************************************************************************)
LowerLetters == <<"a", "b", "c", "d", "e", "f", "g", "h", "i", "j", "k", "l", "m", "n", "o", "p", "q", "r", "s", "t", "u", "v", "w", "x", "y", "z">>
UpperLetters == <<"A", "B", "C", "D", "E", "F", "G", "H", "I", "J", "K", "L", "M", "N", "O", "P", "Q", "R", "S", "T", "U", "V", "W", "X", "Y", "Z">>
Digits == {"0", "1", "2", "3", "4", "5", "6", "7", "8", "9"}

IsLower(c) == c \in Range(LowerLetters)
IsUpper(c) == c \in Range(UpperLetters)
IsDigit(c) == c \in Digits

\* str.lower() and str.upper() of one character
LowerChar(c) ==
    IF IsUpper(c) THEN LowerLetters[CHOOSE i \in DOMAIN UpperLetters : UpperLetters[i] = c] ELSE c
UpperChar(c) ==
    IF IsLower(c) THEN UpperLetters[CHOOSE i \in DOMAIN LowerLetters : LowerLetters[i] = c] ELSE c
LowerText(text) == [i \in DOMAIN text |-> LowerChar(text[i])]

Item(key, value) == [key |-> key, value |-> value]
Keys(d) == { d[i].key : i \in DOMAIN d }
Has(d, key) == key \in Keys(d)
Get(d, key) == d[CHOOSE i \in DOMAIN d : d[i].key = key].value

\* d[key] = value: an existing key keeps its place
SetItem(d, key, value) ==
    IF Has(d, key)
    THEN [i \in DOMAIN d |-> IF d[i].key = key THEN Item(key, value) ELSE d[i]]
    ELSE Append(d, Item(key, value))

\* d.update(other)
RECURSIVE Update(_, _)
Update(d, other) ==
    IF other = <<>> THEN d
    ELSE Update(SetItem(d, other[1].key, other[1].value), Tail(other))

\* {v: k for k, v in d.items()}
RECURSIVE Inverted(_, _)
Inverted(acc, d) ==
    IF d = <<>> THEN acc
    ELSE Inverted(SetItem(acc, d[1].value, d[1].key), Tail(d))

\* FieldMapper.COMMON_MAPPINGS
COMMON_MAPPINGS ==
    << Item(<<"i", "d">>, <<"i", "d">>),
           \* 'id': 'id'
       Item(<<"c", "r", "e", "a", "t", "e", "d", "_", "t", "i", "m", "e">>, <<"c", "r", "e", "a", "t", "e", "T", "i", "m", "e">>),
           \* 'created_time': 'createTime'
       Item(<<"u", "p", "d", "a", "t", "e", "d", "_", "t", "i", "m", "e">>, <<"u", "p", "d", "a", "t", "e", "T", "i", "m", "e">>),
           \* 'updated_time': 'updateTime'
       Item(<<"i", "s", "_", "d", "e", "l", "e", "t", "e", "d">>, <<"i", "s", "D", "e", "l", "e", "t", "e", "d">>),
           \* 'is_deleted': 'isDeleted'
       Item(<<"r", "o", "l", "e", "_", "i", "d">>, <<"r", "o", "l", "e", "I", "d">>),
           \* 'role_id': 'roleId'
       Item(<<"r", "o", "l", "e", "_", "n", "a", "m", "e">>, <<"r", "o", "l", "e", "N", "a", "m", "e">>),
           \* 'role_name': 'roleName'
       Item(<<"r", "o", "l", "e", "_", "c", "o", "d", "e">>, <<"r", "o", "l", "e", "C", "o", "d", "e">>),
           \* 'role_code': 'roleCode'
       Item(<<"i", "s", "_", "s", "y", "s", "t", "e", "m">>, <<"i", "s", "S", "y", "s", "t", "e", "m">>) >>
           \* 'is_system': 'isSystem'

\* the custom mappings of UserFieldMapper
UserMappings ==
    << Item(<<"i", "d">>, <<"u", "s", "e", "r", "I", "d">>),
           \* 'id': 'userId'
       Item(<<"c", "r", "e", "a", "t", "e", "_", "t", "i", "m", "e">>, <<"c", "r", "e", "a", "t", "e", "T", "i", "m", "e">>),
           \* 'create_time': 'createTime'
       Item(<<"u", "p", "d", "a", "t", "e", "_", "t", "i", "m", "e">>, <<"u", "p", "d", "a", "t", "e", "T", "i", "m", "e">>),
           \* 'update_time': 'updateTime'
       Item(<<"l", "a", "s", "t", "_", "l", "o", "g", "i", "n">>, <<"l", "a", "s", "t", "L", "o", "g", "i", "n">>),
           \* 'last_login': 'lastLogin'
       Item(<<"d", "e", "p", "t", "_", "i", "d">>, <<"d", "e", "p", "t", "I", "d">>),
           \* 'dept_id': 'deptId'
       Item(<<"d", "e", "p", "t", "_", "n", "a", "m", "e">>, <<"d", "e", "p", "t", "N", "a", "m", "e">>),
           \* 'dept_name': 'deptName'
       Item(<<"s", "t", "a", "t", "u", "s">>, <<"s", "t", "a", "t", "u", "s">>),
           \* 'status': 'status'
       Item(<<"r", "o", "l", "e", "_", "i", "d", "s">>, <<"r", "o", "l", "e", "I", "d", "s">>) >>
           \* 'role_ids': 'roleIds'

\* mappers/constants.py FIELD_MAPPINGS, the custom mappings of the format strategies
FIELD_MAPPINGS ==
    << Item(<<"i", "d">>, <<"i", "d">>),
           \* 'id': 'id'
       Item(<<"c", "r", "e", "a", "t", "e", "_", "t", "i", "m", "e">>, <<"c", "r", "e", "a", "t", "e", "T", "i", "m", "e">>),
           \* 'create_time': 'createTime'
       Item(<<"u", "p", "d", "a", "t", "e", "_", "t", "i", "m", "e">>, <<"u", "p", "d", "a", "t", "e", "T", "i", "m", "e">>),
           \* 'update_time': 'updateTime'
       Item(<<"l", "a", "s", "t", "_", "l", "o", "g", "i", "n">>, <<"l", "a", "s", "t", "L", "o", "g", "i", "n">>),
           \* 'last_login': 'lastLogin'
       Item(<<"d", "e", "p", "t", "_", "i", "d">>, <<"d", "e", "p", "t", "I", "d">>),
           \* 'dept_id': 'deptId'
       Item(<<"d", "e", "p", "t", "_", "n", "a", "m", "e">>, <<"d", "e", "p", "t", "N", "a", "m", "e">>),
           \* 'dept_name': 'deptName'
       Item(<<"s", "t", "a", "t", "u", "s">>, <<"s", "t", "a", "t", "u", "s">>),
           \* 'status': 'status'
       Item(<<"r", "o", "l", "e", "_", "i", "d", "s">>, <<"r", "o", "l", "e", "I", "d", "s">>) >>
           \* 'role_ids': 'roleIds'

\* the custom mappings of DictFieldMapper
DictMappings ==
    << Item(<<"i", "d">>, <<"d", "i", "c", "t", "I", "d">>),
           \* 'id': 'dictId'
       Item(<<"d", "i", "c", "t", "_", "c", "o", "d", "e">>, <<"d", "i", "c", "t", "C", "o", "d", "e">>),
           \* 'dict_code': 'dictCode'
       Item(<<"c", "r", "e", "a", "t", "e", "_", "t", "i", "m", "e">>, <<"c", "r", "e", "a", "t", "e", "T", "i", "m", "e">>),
           \* 'create_time': 'createTime'
       Item(<<"u", "p", "d", "a", "t", "e", "_", "t", "i", "m", "e">>, <<"u", "p", "d", "a", "t", "e", "T", "i", "m", "e">>),
           \* 'update_time': 'updateTime'
       Item(<<"t", "a", "g", "_", "t", "y", "p", "e">>, <<"t", "a", "g", "T", "y", "p", "e">>) >>
           \* 'tag_type': 'tagType'

\* FieldMapper(custom_mappings): the forward and the reverse table
FieldMapper(custom_mappings) ==
    LET m == IF custom_mappings # <<>> THEN Update(COMMON_MAPPINGS, custom_mappings)
             ELSE COMMON_MAPPINGS
    IN  [mappings |-> m, reverse_mappings |-> Inverted(<<>>, m)]

default_mapper == FieldMapper(<<>>)

register_mapping(mapper, backend_key, frontend_key) ==
    [mappings |-> SetItem(mapper.mappings, backend_key, frontend_key),
     reverse_mappings |-> SetItem(mapper.reverse_mappings, frontend_key, backend_key)]

RECURSIVE batch_register_mappings(_, _)
batch_register_mappings(mapper, new_mappings) ==
    IF new_mappings = <<>> THEN mapper
    ELSE batch_register_mappings(
            register_mapping(mapper, new_mappings[1].key, new_mappings[1].value),
            Tail(new_mappings))

\* re.sub('(.)([A-Z][a-z]+)', r'\1_\2', text) from position i on: the end of
\* the run of lower-case letters that starts at j
RECURSIVE LowerRunEnd(_, _)
LowerRunEnd(text, j) ==
    IF j + 1 <= Len(text) /\ IsLower(text[j + 1]) THEN LowerRunEnd(text, j + 1) ELSE j

RECURSIVE SubWord(_, _)
SubWord(text, i) ==
    IF i > Len(text) THEN <<>>
    ELSE IF i + 2 <= Len(text) /\ IsUpper(text[i + 1]) /\ IsLower(text[i + 2])
         THEN LET j == LowerRunEnd(text, i + 2)
              IN  <<text[i], "_">> \o SubSeq(text, i + 1, j) \o SubWord(text, j + 1)
         ELSE <<text[i]>> \o SubWord(text, i + 1)

\* re.sub('([a-z0-9])([A-Z])', r'\1_\2', text) from position i on
RECURSIVE SubCapital(_, _)
SubCapital(text, i) ==
    IF i > Len(text) THEN <<>>
    ELSE IF i + 1 <= Len(text) /\ (IsLower(text[i]) \/ IsDigit(text[i])) /\ IsUpper(text[i + 1])
         THEN <<text[i], "_", text[i + 1]>> \o SubCapital(text, i + 2)
         ELSE <<text[i]>> \o SubCapital(text, i + 1)

\* to_snake_case with the first substitution only
to_snake_case_WordsOnly(text) ==
    IF text = <<>> THEN text ELSE LowerText(SubWord(text, 1))

to_snake_case(text) ==
    IF text = <<>> THEN text
    ELSE LowerText(SubCapital(SubWord(text, 1), 1))

\* inflection.camelize(string): re.sub(r"(?:^|_)(.)", upper of the group)
\* from position i on
RECURSIVE Camelized(_, _)
Camelized(string, i) ==
    IF i > Len(string) THEN <<>>
    ELSE IF i = 1 THEN <<UpperChar(string[1])>> \o Camelized(string, 2)
    ELSE IF string[i] = "_" /\ i + 1 <= Len(string)
         THEN <<UpperChar(string[i + 1])>> \o Camelized(string, i + 2)
         ELSE <<string[i]>> \o Camelized(string, i + 1)

\* inflection.camelize(string, uppercase_first_letter)
camelize(string, uppercase_first_letter) ==
    IF uppercase_first_letter THEN Camelized(string, 1)
    ELSE <<LowerChar(string[1])>> \o Tail(Camelized(string, 1))

to_camel_case(text, first_upper) ==
    IF text = <<>> THEN text ELSE camelize(text, first_upper)

\* the default of _convert_keys' max_depth
DefaultMaxDepth == 10

\* Values handled by the mappers: scalars by value, dicts and lists by
\* reference to an object of the heap.
NoneD == [t |-> "none"]
IntD(n) == [t |-> "int", i |-> n]
StrD(s) == [t |-> "str", s |-> s]
BoolD(b) == [t |-> "bool", b |-> b]
DateTimeD(year, month, day, hour, minute, second) ==
    [t |-> "datetime", year |-> year, month |-> month, day |-> day,
     hour |-> hour, minute |-> minute, second |-> second]
UuidD(n) == [t |-> "uuid", n |-> n]
Ref(a) == [t |-> "ref", a |-> a]
DictObj(items) == [t |-> "dict", items |-> items]
ListObj(items) == [t |-> "list", items |-> items]

IsDict(h, data) == data.t = "ref" /\ h[data.a].t = "dict"
IsList(h, data) == data.t = "ref" /\ h[data.a].t = "list"

\* a call's outcome: the heap after it and the value returned, or raised
Done(h, value) == [raised |-> FALSE, heap |-> h, value |-> value]
Fail(h) == [raised |-> TRUE, heap |-> h, value |-> NoneD]

\* the conversion functions without the table lookup
conversion_func_FallbackOnly(mapper, direction, key) ==
    IF direction = "backend_to_frontend" THEN to_camel_case(key, FALSE)
    ELSE to_snake_case(key)

\* conversion_func of backend_to_frontend and of frontend_to_backend
conversion_func(mapper, direction, key) ==
    IF direction = "backend_to_frontend"
    THEN IF Has(mapper.mappings, key) THEN Get(mapper.mappings, key)
         ELSE to_camel_case(key, FALSE)
    ELSE IF Has(mapper.reverse_mappings, key) THEN Get(mapper.reverse_mappings, key)
         ELSE to_snake_case(key)

\* the depth test one level too early
DepthExceeded_AtLimit(depth, max_depth) == depth >= max_depth

DepthExceeded(depth, max_depth) == depth > max_depth

\* _convert_keys that renames the keys of a dict in the dict itself
RECURSIVE RenameInPlace(_, _, _, _)
RenameInPlace(mapper, direction, items, acc) ==
    IF items = <<>> THEN acc
    ELSE RenameInPlace(mapper, direction, Tail(items),
                       SetItem(acc, conversion_func(mapper, direction, items[1].key),
                               items[1].value))

convert_keys_InPlace(h, mapper, direction, data, depth, max_depth) ==
    IF IsDict(h, data)
    THEN Done([h EXCEPT ![data.a] = DictObj(RenameInPlace(mapper, direction, @.items, <<>>))],
              data)
    ELSE Done(h, data)

RECURSIVE convert_keys(_, _, _, _, _, _)
RECURSIVE ConvertDict(_, _, _, _, _, _, _)
RECURSIVE ConvertList(_, _, _, _, _, _, _)

\* the loop over data.items(): acc is the result dict so far
ConvertDict(h, mapper, direction, items, acc, depth, max_depth) ==
    IF items = <<>> THEN [raised |-> FALSE, heap |-> h, items |-> acc]
    ELSE LET new_key == conversion_func(mapper, direction, items[1].key)
             r == convert_keys(h, mapper, direction, items[1].value, depth + 1, max_depth)
         IN  IF r.raised THEN [raised |-> TRUE, heap |-> r.heap, items |-> acc]
             ELSE ConvertDict(r.heap, mapper, direction, Tail(items),
                              SetItem(acc, new_key, r.value), depth, max_depth)

\* the list comprehension over data
ConvertList(h, mapper, direction, items, acc, depth, max_depth) ==
    IF items = <<>> THEN [raised |-> FALSE, heap |-> h, items |-> acc]
    ELSE LET r == convert_keys(h, mapper, direction, items[1], depth + 1, max_depth)
         IN  IF r.raised THEN [raised |-> TRUE, heap |-> r.heap, items |-> acc]
             ELSE ConvertList(r.heap, mapper, direction, Tail(items),
                              Append(acc, r.value), depth, max_depth)

\* _convert_keys: a dict or a list gives a new object, anything else is
\* returned as it is
convert_keys(h, mapper, direction, data, depth, max_depth) ==
    IF DepthExceeded(depth, max_depth) THEN Fail(h)
    ELSE IF IsDict(h, data)
         THEN LET r == ConvertDict(h, mapper, direction, h[data.a].items, <<>>, depth, max_depth)
              IN  IF r.raised THEN Fail(r.heap)
                  ELSE Done(Append(r.heap, DictObj(r.items)), Ref(Len(r.heap) + 1))
    ELSE IF IsList(h, data)
         THEN LET r == ConvertList(h, mapper, direction, h[data.a].items, <<>>, depth, max_depth)
              IN  IF r.raised THEN Fail(r.heap)
                  ELSE Done(Append(r.heap, ListObj(r.items)), Ref(Len(r.heap) + 1))
    ELSE Done(h, data)

backend_to_frontend(h, mapper, data) ==
    convert_keys(h, mapper, "backend_to_frontend", data, 0, DefaultMaxDepth)

frontend_to_backend(h, mapper, data) ==
    convert_keys(h, mapper, "frontend_to_backend", data, 0, DefaultMaxDepth)

(***************************************************************************)
(* UserFieldMapper and the format strategies.  An ORM object is an object  *)
(* of the heap with its attributes as items.                               *)
(***************************************************************************)
Obj(items) == [t |-> "object", items |-> items]

HasAttr(h, obj, name) == Has(h[obj.a].items, name)
GetAttr(h, obj, name) == Get(h[obj.a].items, name)

\* bool(value)
TruthyD(h, v) ==
    CASE v.t = "none" -> FALSE
      [] v.t = "int" -> v.i # 0
      [] v.t = "str" -> v.s # ""
      [] v.t = "bool" -> v.b
      [] v.t = "ref" -> h[v.a].t = "object" \/ h[v.a].items # <<>>
      [] OTHER -> TRUE

\* str(value): a UUID as its hexadecimal text
StrOf(v) ==
    CASE v.t = "uuid" -> StrD("00000000-0000-0000-0000-00000000000" \o ToString(v.n))
      [] v.t = "int" -> StrD(ToString(v.i))
      [] OTHER -> v

Pad2(n) == IF n < 10 THEN "0" \o ToString(n) ELSE ToString(n)
Pad4(n) ==
    IF n < 10 THEN "000" \o ToString(n)
    ELSE IF n < 100 THEN "00" \o ToString(n)
    ELSE IF n < 1000 THEN "0" \o ToString(n)
    ELSE ToString(n)

\* datetime.isoformat() of a naive datetime without microseconds
isoformat(dt) ==
    StrD(Pad4(dt.year) \o "-" \o Pad2(dt.month) \o "-" \o Pad2(dt.day) \o "T"
         \o Pad2(dt.hour) \o ":" \o Pad2(dt.minute) \o ":" \o Pad2(dt.second))

\* result[key] = value and result.setdefault(key, value) on the dict at ref
SetKey(h, ref, key, value) == [h EXCEPT ![ref.a].items = SetItem(@, key, value)]
SetDefault(h, ref, key, value) ==
    IF Has(h[ref.a].items, key) THEN h ELSE SetKey(h, ref, key, value)

\* a new object on the heap, and its reference
Alloc(h, obj) == Append(h, obj)
Newest(h) == Ref(Len(h))

\* str(x) if x else None
StrOrNone(h, v) == IF TruthyD(h, v) THEN StrOf(v) ELSE NoneD

\* an extraction that copies every column of the user
extract_base_data_AllColumns(h, user) ==
    LET h1 == Alloc(h, DictObj(SelectSeq(h[user.a].items,
                                         LAMBDA it : it.value.t \notin {"none", "ref"})))
    IN  Done(h1, Newest(h1))

\* _extract_base_data / UserBaseDataExtractor.extract: the dict of the ten
\* base entries, without those that are None
extract_base_data(h, user) ==
    LET data ==
            << Item(<<"i", "d">>, StrOrNone(h, GetAttr(h, user, <<"i", "d">>))),
               Item(<<"u", "s", "e", "r", "n", "a", "m", "e">>, GetAttr(h, user, <<"u", "s", "e", "r", "n", "a", "m", "e">>)),
               Item(<<"n", "i", "c", "k", "n", "a", "m", "e">>, IF TruthyD(h, GetAttr(h, user, <<"n", "i", "c", "k", "n", "a", "m", "e">>))
                                 THEN GetAttr(h, user, <<"n", "i", "c", "k", "n", "a", "m", "e">>)
                                 ELSE GetAttr(h, user, <<"u", "s", "e", "r", "n", "a", "m", "e">>)),
               Item(<<"a", "v", "a", "t", "a", "r">>, GetAttr(h, user, <<"a", "v", "a", "t", "a", "r">>)),
               Item(<<"g", "e", "n", "d", "e", "r">>, GetAttr(h, user, <<"g", "e", "n", "d", "e", "r">>)),
               Item(<<"m", "o", "b", "i", "l", "e">>, GetAttr(h, user, <<"m", "o", "b", "i", "l", "e">>)),
               Item(<<"e", "m", "a", "i", "l">>, GetAttr(h, user, <<"e", "m", "a", "i", "l">>)),
               Item(<<"s", "t", "a", "t", "u", "s">>, GetAttr(h, user, <<"s", "t", "a", "t", "u", "s">>)),
               Item(<<"d", "e", "p", "t", "_", "i", "d">>, StrOrNone(h, GetAttr(h, user, <<"d", "e", "p", "t", "_", "i", "d">>))),
               Item(<<"c", "r", "e", "a", "t", "e", "_", "t", "i", "m", "e">>, GetAttr(h, user, <<"c", "r", "e", "a", "t", "e", "_", "t", "i", "m", "e">>)) >>
        h1 == Alloc(h, DictObj(SelectSeq(data, LAMBDA it : it.value # NoneD)))
    IN  Done(h1, Newest(h1))

\* the roles of the user: user.roles when the attribute is there and not empty
RolesOf(h, user) ==
    IF HasAttr(h, user, <<"r", "o", "l", "e", "s">>) /\ TruthyD(h, GetAttr(h, user, <<"r", "o", "l", "e", "s">>))
    THEN h[GetAttr(h, user, <<"r", "o", "l", "e", "s">>).a].items ELSE <<>>

\* [role.<attr> for role in user.roles if hasattr(role, attr)]
RoleAttrs(h, user, attr) ==
    LET with == SelectSeq(RolesOf(h, user), LAMBDA role : HasAttr(h, role, attr))
    IN  [i \in DOMAIN with |-> GetAttr(h, with[i], attr)]

extract_role_codes(h, user) == RoleAttrs(h, user, <<"c", "o", "d", "e">>)

extract_role_ids(h, user) ==
    [i \in DOMAIN RoleAttrs(h, user, <<"i", "d">>) |-> StrOf(RoleAttrs(h, user, <<"i", "d">>)[i])]

\* the set _extract_permission_codes collects
PermissionCodes(h, user) ==
    UNION { { GetAttr(h, perm, <<"c", "o", "d", "e">>) :
              perm \in { p \in Range(h[GetAttr(h, role, <<"p", "e", "r", "m", "i", "s", "s", "i", "o", "n", "s">>).a].items) :
                         HasAttr(h, p, <<"c", "o", "d", "e">>) } } :
            role \in { r \in Range(RolesOf(h, user)) : HasAttr(h, r, <<"p", "e", "r", "m", "i", "s", "s", "i", "o", "n", "s">>) } }

\* the codes appended to a list instead of added to a set
PermissionLists_Appended(h, user) ==
    LET grants(role) ==
            IF HasAttr(h, role, <<"p", "e", "r", "m", "i", "s", "s", "i", "o", "n", "s">>)
            THEN LET with == SelectSeq(h[GetAttr(h, role, <<"p", "e", "r", "m", "i", "s", "s", "i", "o", "n", "s">>).a].items,
                                       LAMBDA p : HasAttr(h, p, <<"c", "o", "d", "e">>))
                 IN  [i \in DOMAIN with |-> GetAttr(h, with[i], <<"c", "o", "d", "e">>)]
            ELSE <<>>
        roles == RolesOf(h, user)
    IN  { IF roles = <<>> THEN <<>>
          ELSE IF Len(roles) = 1 THEN grants(roles[1])
          ELSE grants(roles[1]) \o grants(roles[2]) }

\* list(permission_codes): the codes of the set, in an order of the
\* interpreter's choosing
PermissionLists(h, user) ==
    { order \in [1..Cardinality(PermissionCodes(h, user)) -> PermissionCodes(h, user)] :
        Range(order) = PermissionCodes(h, user) }

\* ', '.join(names)
RECURSIVE CommaJoin(_)
CommaJoin(names) ==
    IF names = <<>> THEN ""
    ELSE IF Len(names) = 1 THEN names[1].s
    ELSE names[1].s \o ", " \o CommaJoin(Tail(names))

\* result['roles'] = role codes; result['perms'] = permission codes (two new lists)
SetRolesAndPerms(h, result, user, perms) ==
    LET h1 == Alloc(h, ListObj(extract_role_codes(h, user)))
        h2 == SetKey(h1, result, <<"r", "o", "l", "e", "s">>, Newest(h1))
        h3 == Alloc(h2, ListObj(perms))
    IN  SetKey(h3, result, <<"p", "e", "r", "m", "s">>, Newest(h3))

\* if 'createTime' in result and isinstance(result['createTime'], datetime):
\*     result['createTime'] = result['createTime'].isoformat()
format_timestamp(h, result) ==
    IF Has(h[result.a].items, <<"c", "r", "e", "a", "t", "e", "T", "i", "m", "e">>)
        /\ Get(h[result.a].items, <<"c", "r", "e", "a", "t", "e", "T", "i", "m", "e">>).t = "datetime"
    THEN SetKey(h, result, <<"c", "r", "e", "a", "t", "e", "T", "i", "m", "e">>, isoformat(Get(h[result.a].items, <<"c", "r", "e", "a", "t", "e", "T", "i", "m", "e">>)))
    ELSE h

\* the dept entries of _build_profile and _build_list_item
SetDeptAndRoleNames(h, result, user, need_name) ==
    LET dept == IF HasAttr(h, user, <<"d", "e", "p", "t">>) THEN GetAttr(h, user, <<"d", "e", "p", "t">>) ELSE NoneD
        h1 == IF TruthyD(h, dept) /\ (need_name => HasAttr(h, dept, <<"n", "a", "m", "e">>))
              THEN SetKey(h, result, <<"d", "e", "p", "t", "N", "a", "m", "e">>, GetAttr(h, dept, <<"n", "a", "m", "e">>))
              ELSE h
    IN  IF RolesOf(h, user) # <<>>
        THEN SetKey(h1, result, <<"r", "o", "l", "e", "N", "a", "m", "e", "s">>, StrD(CommaJoin(RoleAttrs(h, user, <<"n", "a", "m", "e">>))))
        ELSE h1

\* result.setdefault('avatar', None); result.setdefault('deptId', None)
set_defaults(r) ==
    IF r.raised THEN r
    ELSE Done(SetDefault(SetDefault(r.heap, r.value, <<"a", "v", "a", "t", "a", "r">>, NoneD),
                         r.value, <<"d", "e", "p", "t", "I", "d">>, NoneD), r.value)

\* _build_me_response, after the mapping of base_data: the timestamp is
\* not formatted
me_response_fields(r, user, perms) ==
    IF r.raised THEN r
    ELSE set_defaults(Done(SetRolesAndPerms(r.heap, r.value, user, perms), r.value))

build_me_response(h, mapper, base_data, user, perms) ==
    me_response_fields(backend_to_frontend(h, mapper, base_data), user, perms)

\* _build_profile and _build_list_item, after the mapping of base_data
dept_fields(r, user, need_name) ==
    IF r.raised THEN r
    ELSE Done(format_timestamp(SetDeptAndRoleNames(r.heap, r.value, user, need_name), r.value),
              r.value)

build_profile(h, mapper, base_data, user) ==
    dept_fields(backend_to_frontend(h, mapper, base_data), user, FALSE)

build_list_item(h, mapper, base_data, user) ==
    dept_fields(backend_to_frontend(h, mapper, base_data), user, TRUE)

\* _build_detail, after the mapping of base_data
detail_fields(r, user, perms) ==
    IF r.raised THEN r
    ELSE Done(format_timestamp(SetRolesAndPerms(r.heap, r.value, user, perms), r.value), r.value)

build_detail(h, mapper, base_data, user, perms) ==
    detail_fields(backend_to_frontend(h, mapper, base_data), user, perms)

\* the dispatch of _convert_to_format on the extracted base data
build_format(base, mapper, user, format_type, perms) ==
    CASE format_type = "me_response" -> build_me_response(base.heap, mapper, base.value, user, perms)
      [] format_type = "profile" -> build_profile(base.heap, mapper, base.value, user)
      [] format_type = "list_item" -> build_list_item(base.heap, mapper, base.value, user)
      [] format_type = "detail" -> build_detail(base.heap, mapper, base.value, user, perms)
      [] OTHER -> Fail(base.heap)

\* UserFieldMapper._convert_to_format
convert_to_format(h, mapper, user, format_type, perms) ==
    build_format(extract_base_data(h, user), mapper, user, format_type, perms)

\* BaseFormatStrategy._apply_base_mapping
apply_base_mapping(h, mapper, base_data) ==
    set_defaults(backend_to_frontend(h, mapper, base_data))

\* UserDepartmentDataExtractor.extract: the items of dept_data
dept_data(h, user) ==
    LET dept == IF HasAttr(h, user, <<"d", "e", "p", "t">>) THEN GetAttr(h, user, <<"d", "e", "p", "t">>) ELSE NoneD
        d1 == IF TruthyD(h, dept)
              THEN <<Item(<<"d", "e", "p", "t", "_", "n", "a", "m", "e">>, GetAttr(h, dept, <<"n", "a", "m", "e">>))>>
                    \o (IF HasAttr(h, dept, <<"i", "d">>)
                        THEN <<Item(<<"d", "e", "p", "t", "_", "i", "d">>, StrOf(GetAttr(h, dept, <<"i", "d">>)))>> ELSE <<>>)
              ELSE <<>>
    IN  IF RolesOf(h, user) # <<>>
        THEN Append(d1, Item(<<"r", "o", "l", "e", "_", "n", "a", "m", "e", "s">>, StrD(CommaJoin(RoleAttrs(h, user, <<"n", "a", "m", "e">>)))))
        ELSE d1

\* result['roleIds'] = role ids; result['openId'] = user.openid
SetRoleIdsAndOpenId(h, result, user) ==
    LET h1 == Alloc(h, ListObj(extract_role_ids(h, user)))
        h2 == SetKey(h1, result, <<"r", "o", "l", "e", "I", "d", "s">>, Newest(h1))
    IN  IF HasAttr(h, user, <<"o", "p", "e", "n", "i", "d">>)
        THEN SetKey(h2, result, <<"o", "p", "e", "n", "I", "d">>, GetAttr(h, user, <<"o", "p", "e", "n", "i", "d">>))
        ELSE h2

\* what each strategy adds to the mapped base data
strategy_fields(h, result, format_name, user, perms) ==
    CASE format_name \in {"me_response", "detail"} -> SetRolesAndPerms(h, result, user, perms)
      [] format_name \in {"profile", "list_item"} ->
            [h EXCEPT ![result.a].items = Update(@, dept_data(h, user))]
      [] format_name = "form" -> SetRoleIdsAndOpenId(h, result, user)

\* a transform after _apply_base_mapping: the fields, then _format_timestamp
transform_fields(r, format_name, user, perms) ==
    IF r.raised THEN r
    ELSE Done(format_timestamp(strategy_fields(r.heap, r.value, format_name, user, perms),
                               r.value), r.value)

\* the transform of the five format strategies
transform(h, mapper, format_name, base_data, user, perms) ==
    transform_fields(apply_base_mapping(h, mapper, base_data), format_name, user, perms)

(***************************************************************************)
(* Inputs of the calls.                                                    *)
(***************************************************************************)
Pair(key, value) == [key |-> key, value |-> value]

\* filter() arguments of the composition runs
CompPairs ==
    { Pair("status__eq", IntV(1)), Pair("status__eq", IntV(0)), Pair("status__eq", NoneV),
      Pair("username__like", StrV("adm")), Pair("username__like", StrV("")),
      Pair("status__in", ListV(<<1, 0>>)), Pair("status__in", ListV(<<>>)),
      Pair("keywords", StrV("adm")),
      Pair("is_deleted__eq", BoolV(FALSE)),
      Pair("nosuch", IntV(1)), Pair("nosuch", NoneV),
      Pair("nosuch", RangeDict(StrS("2024-01-01"), StrS("2024-01-31"))),
      Pair("sort_field", StrV("create_time")),
      Pair("create_time_range", RangeDict(DateTimeS(1, 0), DateTimeS(2, 0))),
      Pair("gender__range", MinMaxDict(IntS(1), IntS(2))) }

CompKwargs ==
    { <<p>> : p \in CompPairs }
      \cup { <<pq[1], pq[2]>> : pq \in { x \in CompPairs \X CompPairs : x[1].key # x[2].key } }

\* filter() arguments of the per-strategy runs: every key with every value
StrategyKeys ==
    { "status__eq", "status__ne", "username__like", "keywords", "create_time_range",
      "gender__range", "status__in", "is_deleted__bool", "nosuch" }

StrategyValues ==
    { NoneV, StrV(""), ListV(<<>>),
      IntV(0), IntV(1), IntV(2), BoolV(TRUE), BoolV(FALSE),
      StrV("adm"), StrV("TRUE"), StrV("Yes"), StrV("yes"), StrV("1"), StrV("no"),
      ListV(<<1, 0>>),
      RangeDict(DateTimeS(1, 0), DateTimeS(2, 0)),
      RangeDict(AbsentS, DateTimeS(2, 0)),
      RangeDict(AbsentS, DateS(2)),
      RangeDict(DateS(1), DateS(2)),
      RangeDict(StrS("2024-01-01"), StrS("2024-01-31")),
      RangeDict(DateTimeS(1, 0), IntS(5)),
      MinMaxDict(IntS(1), IntS(2)) }

StrategyKwargs == { <<Pair(k, v)>> : k \in StrategyKeys, v \in StrategyValues }

\* register_strategy() arguments of the per-strategy runs
StrategyRegs ==
    { RegCall("is_deleted__bool", BooleanFilter("is_deleted")),
      RegCall("status__ne", NotEqualFilter("status")) }

\* register_strategy() and auto_register_field_strategies() arguments of the
\* registration runs
RegInputs ==
    { RegCall("status__eq", LikeFilter("status")),
      RegCall("status__eq", EqualFilter("gender")),
      RegCall("status__ne", BooleanFilter("status")),
      RegCall("is_deleted__bool", BooleanFilter("is_deleted")),
      RegCall("create_time_range", ValueRangeFilter("create_time")) }

AutoInputs ==
    { <<FieldConfig("status", [allow_not_equal |-> TRUE])>>,
      <<FieldConfig("status", [allow_equal |-> FALSE, allow_like |-> TRUE])>>,
      <<FieldConfig("is_deleted", [allow_equal |-> FALSE])>>,
      <<FieldConfig("is_deleted", [allow_in |-> TRUE])>>,
      <<FieldConfig("is_deleted", [allow_equal |-> FALSE, allow_in |-> TRUE, allow_range |-> TRUE])>>,
      <<FieldConfig("nosuch", [allow_equal |-> TRUE, allow_like |-> TRUE])>>,
      <<FieldConfig("create_time", [allow_range |-> TRUE, allow_not_equal |-> FALSE]),
        FieldConfig("nosuch", [allow_like |-> TRUE]),
        FieldConfig("openid", [allow_like |-> TRUE, allow_not_equal |-> TRUE])>> }

\* paginate() arguments
Offsets == { IntS(0), IntS(20), IntS(-5) }
Limits == { IntS(10), IntS(100), IntS(0), IntS(-1), NoneS }

\* order_by() arguments
OrderInputs ==
    { <<Directive("username", "name")>>,
      <<Directive("nosuch", "name")>>,
      <<Directive("status", "asc"), Directive("nickname", "name")>>,
      <<Directive("create_time", "desc")>> }

PageKwargs ==
    { <<Pair("status__eq", IntV(1))>>,
      <<Pair("username__like", StrV("adm"))>>,
      <<Pair("nosuch", IntV(1))>>,
      <<Pair("status__in", ListV(<<>>))>> }

\* list_all() filters keyed by a field name alone, next to the suffixed keys
BareKwargs ==
    { <<Pair("status", IntV(1))>>, <<Pair("status", IntV(0))>>,
      <<Pair("username", StrV("admin"))>>,
      <<Pair("status__eq", IntV(1))>>,
      <<Pair("username__eq", StrV("admin"))>>,
      <<Pair("username__like", StrV("adm"))>>,
      <<Pair("status", IntV(1)), Pair("username__like", StrV("adm"))>> }

\* list_all() arguments of the requests that share one builder
SharedKwargs ==
    { <<Pair("status__eq", IntV(1))>>,
      <<Pair("username__like", StrV("adm"))>>,
      <<Pair("status__in", ListV(<<1, 0>>))>>,
      <<Pair("status__eq", NoneV)>>,
      <<>> }
SharedOffsets == { IntS(0), IntS(20) }
SharedLimits == { IntS(10) }

\* the calls of the list methods of UserRepository
ListArgs(method, offset, limit, filters) ==
    [method |-> method, offset |-> offset, limit |-> limit, filters |-> filters]

ListInputs ==
    { ListArgs("list_all", IntS(0), IntS(10), <<Pair("status__eq", IntV(1))>>),
      ListArgs("list_all", IntS(20), IntS(10), <<Pair("username__like", StrV("adm"))>>),
      ListArgs("count_total", IntS(0), IntS(100), <<Pair("status__in", ListV(<<1, 0>>))>>),
      ListArgs("list_all_with_count", IntS(0), IntS(10),
               <<Pair("status__eq", IntV(0)), Pair("sort_field", StrV("username")),
                 Pair("sort_direction", StrV("ASC"))>>),
      ListArgs("list_all_with_count", IntS(20), IntS(10),
               <<Pair("sort_field", StrV("status")), Pair("sort_direction", StrV("asc"))>>),
      ListArgs("list_all_with_count", IntS(0), IntS(10),
               <<Pair("sort_field", StrV("nickname")), Pair("sort_direction", StrV("DESC"))>>),
      ListArgs("list_all_with_count", IntS(0), IntS(10),
               <<Pair("username__like", StrV("adm")), Pair("sort_field", StrV("email"))>>),
      ListArgs("list_all_with_count", IntS(0), IntS(10),
               <<Pair("sort_field", StrV("password")), Pair("sort_direction", StrV("ASC"))>>),
      ListArgs("list_all_with_count", IntS(0), IntS(10),
               <<Pair("sort_field", StrV("gender")), Pair("sort_direction", NoneV)>>),
      ListArgs("list_all_with_count", IntS(20), IntS(10), <<Pair("gender__eq", IntV(1))>>) }

\* the key of the nested dicts
ChildKey == <<"c", "h", "i", "l", "d", "_", "n", "o", "d", "e">>    \* 'child_node'

\* backend names outside every table
OtherBackendKeys ==
    { <<"n", "i", "c", "k", "n", "a", "m", "e">>,    \* 'nickname'
      <<"u", "s", "e", "r", "_", "n", "a", "m", "e">>,    \* 'user_name'
      <<"d", "e", "p", "t", "_", "c", "o", "d", "e", "2">> }    \* 'dept_code2'

\* frontend names outside every table
OtherFrontendKeys ==
    { <<"n", "i", "c", "k", "n", "a", "m", "e">>,    \* 'nickname'
      <<"u", "s", "e", "r", "N", "a", "m", "e">>,    \* 'userName'
      <<"d", "e", "p", "t", "C", "o", "d", "e", "2">>,    \* 'deptCode2'
      <<"u", "s", "e", "r", "_", "i", "d">> }    \* 'user_id'

\* keys of the flat dicts given to the mappers: the names of every table and
\* names outside them
FlatKeys ==
    Keys(COMMON_MAPPINGS) \cup Keys(UserMappings) \cup Keys(DictMappings) \cup OtherBackendKeys

\* frontend names of the flat dicts: the values of every table and names
\* outside them
FrontKeys ==
    { it.value : it \in Range(COMMON_MAPPINGS) \cup Range(UserMappings) \cup Range(DictMappings) }
        \cup OtherFrontendKeys

FlatValues == { IntD(1), StrD("abc-123"), DateTimeD(2024, 1, 1, 0, 0, 0), NoneD }

\* a chain of n containers, each holding the next; the last one holds `last`
\* (a scalar, or a reference back to the first for a cycle) or, when last is
\* Nothing, is empty
Nothing == [t |-> "nothing"]
Holder(kind, value) ==
    IF kind = "dict" THEN DictObj(<<Item(ChildKey, value)>>) ELSE ListObj(<<value>>)
Chain(n, kind, last) ==
    [a \in 1..n |->
        IF a < n THEN Holder(kind, Ref(a + 1))
        ELSE IF last = Nothing THEN (IF kind = "dict" THEN DictObj(<<>>) ELSE ListObj(<<>>))
        ELSE Holder(kind, last)]

\* the heaps the mapper runs start from; the argument is the object at 1
FlatHeaps(keys) == { <<DictObj(<<Item(k, v)>>)>> : k \in keys, v \in FlatValues }

\* {'id': 1, 'create_time': datetime, 'role_list': [{'role_id': 1, 'is_system': 0}, 2]}
NestedHeap ==
    << DictObj(<<Item(<<"i", "d">>, IntD(1)), Item(<<"c", "r", "e", "a", "t", "e", "_", "t", "i", "m", "e">>, DateTimeD(2024, 1, 1, 0, 0, 0)),
                 Item(<<"r", "o", "l", "e", "_", "l", "i", "s", "t">>, Ref(2))>>),
       ListObj(<<Ref(3), IntD(2)>>),
       DictObj(<<Item(<<"r", "o", "l", "e", "_", "i", "d">>, IntD(1)), Item(<<"i", "s", "_", "s", "y", "s", "t", "e", "m">>, IntD(0))>>) >>

\* {'userId': 1, 'createTime': 'x', 'roleList': [{'roleId': 1}], 'created_time': 2}
FrontNestedHeap ==
    << DictObj(<<Item(<<"u", "s", "e", "r", "I", "d">>, IntD(1)), Item(<<"c", "r", "e", "a", "t", "e", "T", "i", "m", "e">>, StrD("x")), Item(<<"r", "o", "l", "e", "L", "i", "s", "t">>, Ref(2)),
                 Item(<<"c", "r", "e", "a", "t", "e", "d", "_", "t", "i", "m", "e">>, IntD(2))>>),
       ListObj(<<Ref(3)>>),
       DictObj(<<Item(<<"r", "o", "l", "e", "I", "d">>, IntD(1))>>) >>

DeepHeaps ==
    { Chain(n, kind, last) : n \in (MaxNest - 3)..MaxNest, kind \in {"dict", "list"},
                             last \in {IntD(7), Nothing} }
        \cup { Chain(n, kind, Ref(1)) : n \in {1, 3}, kind \in {"dict", "list"} }

ConvertHeaps ==
    FlatHeaps(FlatKeys) \cup FlatHeaps(FrontKeys) \cup {NestedHeap, FrontNestedHeap} \cup DeepHeaps

\* names given to the case conversion: every string of up to MaxNameLen of
\* these characters, and the names of the tables
CaseChars == {"u", "d", "I", "N", "2", "_"}
RECURSIVE TextsOf(_)
TextsOf(n) ==
    IF n = 0 THEN {<<>>}
    ELSE TextsOf(n - 1) \cup { Append(t, c) : t \in { x \in TextsOf(n - 1) : Len(x) = n - 1 },
                                             c \in CaseChars }
CaseInputs ==
    TextsOf(MaxNameLen) \cup FlatKeys \cup FrontKeys
        \cup { <<"u", "s", "e", "r", "I", "d", "2", "N", "a", "m", "e">>,      \* 'userId2Name'
               <<"H", "T", "M", "L", "P", "a", "r", "s", "e", "r">> }      \* 'HTMLParser'

\* the users given to the format conversions: the user at 1, its roles at 2,
\* its department at 3, two roles and their permissions after them
UserHeap(id, dept_id, create_time, nickname, dept, roles) ==
    << Obj(<< Item(<<"i", "d">>, id), Item(<<"u", "s", "e", "r", "n", "a", "m", "e">>, StrD("admin")), Item(<<"n", "i", "c", "k", "n", "a", "m", "e">>, nickname),
              Item(<<"a", "v", "a", "t", "a", "r">>, NoneD), Item(<<"g", "e", "n", "d", "e", "r">>, IntD(1)), Item(<<"m", "o", "b", "i", "l", "e">>, NoneD),
              Item(<<"e", "m", "a", "i", "l">>, StrD("a@b.c")), Item(<<"s", "t", "a", "t", "u", "s">>, IntD(1)),
              Item(<<"d", "e", "p", "t", "_", "i", "d">>, dept_id), Item(<<"c", "r", "e", "a", "t", "e", "_", "t", "i", "m", "e">>, create_time),
              Item(<<"o", "p", "e", "n", "i", "d">>, StrD("wx1")), Item(<<"p", "a", "s", "s", "w", "o", "r", "d">>, StrD("$2b$12$hash")),
              Item(<<"r", "o", "l", "e", "s">>, Ref(2)) >>
              \o (IF dept THEN <<Item(<<"d", "e", "p", "t">>, Ref(3))>> ELSE <<>>)),
       ListObj(roles),
       Obj(<< Item(<<"i", "d">>, UuidD(9)), Item(<<"n", "a", "m", "e">>, StrD("HQ")) >>),
       Obj(<< Item(<<"i", "d">>, UuidD(5)), Item(<<"c", "o", "d", "e">>, StrD("ADMIN")), Item(<<"n", "a", "m", "e">>, StrD("Admin")),
              Item(<<"p", "e", "r", "m", "i", "s", "s", "i", "o", "n", "s">>, Ref(5)) >>),
       ListObj(<<Ref(8), Ref(9)>>),
       Obj(<< Item(<<"i", "d">>, UuidD(6)), Item(<<"c", "o", "d", "e">>, StrD("GUEST")), Item(<<"n", "a", "m", "e">>, StrD("Guest")),
              Item(<<"p", "e", "r", "m", "i", "s", "s", "i", "o", "n", "s">>, Ref(7)) >>),
       ListObj(<<Ref(9)>>),
       Obj(<< Item(<<"c", "o", "d", "e">>, StrD("user:add")) >>),
       Obj(<< Item(<<"c", "o", "d", "e">>, StrD("user:list")) >>) >>

UserHeaps ==
    { UserHeap(id, dept_id, create_time, nickname, dept, roles) :
        id \in {UuidD(3), NoneD}, dept_id \in {UuidD(9), NoneD},
        create_time \in {DateTimeD(2024, 1, 1, 0, 0, 0), DateTimeD(2024, 12, 31, 23, 59, 59), NoneD},
        nickname \in {StrD("Ad"), NoneD}, dept \in BOOLEAN,
        roles \in {<<>>, <<Ref(4), Ref(6)>>} }

FormatTypes == {"me_response", "profile", "list_item", "detail", "form", "unknown"}
FormatNames == {"me_response", "profile", "list_item", "detail", "form"}

\* the mappers this repository constructs: default_mapper, and the mappers of
\* UserFieldMapper, of the format strategies and of DictFieldMapper
RepoMappers ==
    { default_mapper, FieldMapper(UserMappings), FieldMapper(FIELD_MAPPINGS),
      FieldMapper(DictMappings) }

\* register_mapping() and batch_register_mappings() arguments
RegisterInputs ==
    { Item(<<"i", "d">>, <<"u", "s", "e", "r", "I", "d">>),      \* 'id': 'userId'
      Item(<<"i", "d">>, <<"i", "d">>),      \* 'id': 'id'
      Item(<<"u", "s", "e", "r", "_", "n", "a", "m", "e">>, <<"n", "a", "m", "e">>),      \* 'user_name': 'name'
      Item(<<"n", "i", "c", "k", "n", "a", "m", "e">>, <<"n", "a", "m", "e">>) }     \* 'nickname': 'name'
BatchInputs ==
    { <<Item(<<"u", "s", "e", "r", "_", "n", "a", "m", "e">>, <<"n", "a", "m", "e">>), Item(<<"i", "d">>, <<"u", "s", "e", "r", "I", "d">>)>>,     \* {'user_name': 'name', 'id': 'userId'}
      <<>> }

\* custom_mappings given to the constructor
CustomInputs ==
    { <<>>, UserMappings, FIELD_MAPPINGS, DictMappings,
      <<Item(<<"u", "s", "e", "r", "_", "n", "a", "m", "e">>, <<"n", "a", "m", "e">>)>>,                    \* {'user_name': 'name'}
      <<Item(<<"u", "s", "e", "r", "_", "n", "a", "m", "e">>, <<"n", "a", "m", "e">>), Item(<<"n", "i", "c", "k", "n", "a", "m", "e">>, <<"n", "a", "m", "e">>)>> }     \* {'user_name': 'name', 'nickname': 'name'}

(***************************************************************************)
(* State machine.  Init is the builder create_user_query_builder returns.  *)
(***************************************************************************)
Returned(op, r) == [op |-> op, raised |-> r.raised, query |-> r.query]
Self(op) == Returned(op, Ok(BaseQuery))

(***************************************************************************)
(* The login endpoints: the Redis keys, the tokens and the user table.     *)
(***************************************************************************)
MaxAttempts == 5                   \* login.py: if failures >= 5
ACCESS_TOKEN_EXPIRE_MINUTES == 30  \* config.py
RefreshDays == 7                   \* security.py: timedelta(days=7)

\* sys_user, by the email the login request names; the id is the cache key
SysUsers ==
    { [email |-> "admin", password |-> "secret", is_active |-> TRUE,  id |-> "u1"],
      [email |-> "guest", password |-> "secret", is_active |-> FALSE, id |-> "u2"] }
Usernames == { u.email : u \in SysUsers }
UserIds == { u.id : u \in SysUsers }
NoUser == [email |-> "", password |-> "", is_active |-> FALSE, id |-> ""]

\* SysUser.is_active, and the truth value of the user authenticate_user returned
Bound(user) == user # NoUser

\* a JWT is its payload: two tokens with equal payloads are the same string
Token(sub, exp, type) == [sub |-> sub, exp |-> exp, type |-> type]
NoToken == Token("", 0, "none")

create_access_token(subject, expires_minutes, now) ==
    Token(subject, now + expires_minutes * 60, "access")

create_refresh_token(data, now) ==
    Token(data.sub, now + RefreshDays * DaySecs, "refresh")

\* decode_jwt_token raises for an expired token, verify_token raises it on
verify_token(token, now) ==
    IF token.type = "none" \/ token.exp < now
    THEN [raised |-> TRUE, payload |-> NoToken]
    ELSE [raised |-> FALSE, payload |-> token]

extract_token_subject(token, now) ==
    LET v == verify_token(token, now)
    IN  [raised |-> v.raised, value |-> v.payload.sub]

refresh_access_token(refresh_token, now) ==
    LET v == verify_token(refresh_token, now)
    IN  IF v.raised \/ v.payload.type # "refresh" \/ v.payload.sub = ""
        THEN [raised |-> TRUE, value |-> NoToken]
        ELSE [raised |-> FALSE,
              value |-> create_access_token(v.payload.sub, ACCESS_TOKEN_EXPIRE_MINUTES, now)]

\* RedisService: a counter absent from Redis reads 0, an absent token NoToken
RedisInit ==
    [login_failures |-> [u \in Usernames |-> 0],
     account_lock |-> [u \in Usernames |-> FALSE],
     refresh_token |-> [i \in UserIds |-> NoToken]]

record_login_failure(rd, username) ==
    [redis |-> [rd EXCEPT !.login_failures[username] = @ + 1],
     value |-> rd.login_failures[username] + 1]

reset_login_failure(rd, username) ==
    [rd EXCEPT !.login_failures[username] = 0, !.account_lock[username] = FALSE]

lock_account(rd, username) == [rd EXCEPT !.account_lock[username] = TRUE]

is_account_locked(rd, username) == rd.account_lock[username]

cache_refresh_token(rd, user_id, token) == [rd EXCEPT !.refresh_token[user_id] = token]

get_refresh_token(rd, user_id) ==
    IF user_id \in UserIds THEN rd.refresh_token[user_id] ELSE NoToken

delete_refresh_token(rd, user_id) == [rd EXCEPT !.refresh_token[user_id] = NoToken]

\* AuthService.authenticate_user: None for an unknown email, a wrong password
\* or an inactive user
authenticate_user(email, password) ==
    IF \E u \in SysUsers : u.email = email /\ u.password = password /\ u.is_active
    THEN CHOOSE u \in SysUsers : u.email = email /\ u.password = password /\ u.is_active
    ELSE NoUser

\* the sys_dept table: id -> parent_id, 0 for a root and for the unset field
NoDept == 0

ServiceInit ==
    /\ redis = RedisInit
    /\ clock = 0
    /\ attempts = [u \in Usernames |-> 0]
    /\ sys_dept = <<>>

\* a request handler: where it is, the arguments it was called with, and the
\* query it built
Requests == 1..NumRequests
Request(pc, filters, offset, limit, query) ==
    [pc |-> pc, filters |-> filters, offset |-> offset, limit |-> limit, query |-> query]
NotStarted == Request("start", <<>>, NoneS, NoneS, Self("none"))

\* no request is being served; the mapper is default_mapper, unused
OutsideInit ==
    /\ requests = [r \in Requests |-> NotStarted]
    /\ mappings = default_mapper.mappings
    /\ reverse_mappings = default_mapper.reverse_mappings
    /\ heap = <<>>
    /\ callLog = <<>>
    /\ ServiceInit

Init ==
    /\ strategies = create_user_query_builder.strategies
    /\ conditions = create_user_query_builder.conditions
    /\ offset_ = create_user_query_builder.offset
    /\ limit_ = create_user_query_builder.limit
    /\ order_by_ = create_user_query_builder.order_by
    /\ ret = Self("create_user_query_builder")
    /\ kwargsLog = <<>>
    /\ regLog = FactoryCalls
    /\ orderLog = <<Directive("create_time", "desc")>>
    /\ OutsideInit

RegisterStrategy(name, strategy) ==
    /\ strategies' = register_strategy(strategies, name, strategy)
    /\ regLog' = Append(regLog, RegCall(name, strategy))
    /\ ret' = Self("register_strategy")
    /\ UNCHANGED <<conditions, offset_, limit_, order_by_, kwargsLog, orderLog>>
    /\ UNCHANGED outsideBuilder

AutoRegister(fields_config) ==
    /\ strategies' = auto_register_field_strategies(strategies, SysUser, fields_config)
    /\ regLog' = Append(regLog, AutoCall(fields_config))
    /\ ret' = Self("auto_register_field_strategies")
    /\ UNCHANGED <<conditions, offset_, limit_, order_by_, kwargsLog, orderLog>>
    /\ UNCHANGED outsideBuilder

Filter(kwargs) ==
    /\ conditions' = filter(conditions, kwargs)
    /\ kwargsLog' = kwargsLog \o kwargs
    /\ ret' = Self("filter")
    /\ UNCHANGED <<strategies, offset_, limit_, order_by_, regLog, orderLog>>
    /\ UNCHANGED outsideBuilder

\* filter() stores the caller's list itself, not a copy: the caller emptying
\* that list afterwards empties the condition's value
ClearListValue(i) ==
    /\ i \in 1..Len(conditions)
    /\ conditions[i].value.t = "list"
    /\ conditions[i].value.items # <<>>
    /\ conditions' = [conditions EXCEPT ![i].value = ListV(<<>>)]
    /\ ret' = Self("caller")
    /\ UNCHANGED <<strategies, offset_, limit_, order_by_, kwargsLog, regLog, orderLog>>
    /\ UNCHANGED outsideBuilder

Build ==
    /\ ret' = Returned("build", build(strategies, conditions, BaseQuery))
    /\ UNCHANGED <<strategies, conditions, offset_, limit_, order_by_,
                   kwargsLog, regLog, orderLog>>
    /\ UNCHANGED outsideBuilder

Reset ==
    /\ conditions' = <<>>
    /\ ret' = Self("reset")
    /\ UNCHANGED <<strategies, offset_, limit_, order_by_, kwargsLog, regLog, orderLog>>
    /\ UNCHANGED outsideBuilder

Paginate(offset, limit) ==
    /\ offset_' = offset
    /\ limit_' = limit
    /\ ret' = Self("paginate")
    /\ UNCHANGED <<strategies, conditions, order_by_, kwargsLog, regLog, orderLog>>
    /\ UNCHANGED outsideBuilder

OrderBy(fields) ==
    /\ order_by_' = order_by(order_by_, SysUser, fields)
    /\ orderLog' = orderLog \o fields
    /\ ret' = Self("order_by")
    /\ UNCHANGED <<strategies, conditions, offset_, limit_, kwargsLog, regLog>>
    /\ UNCHANGED outsideBuilder

BuildPaginated ==
    /\ ret' = Returned("build_paginated",
                       build_paginated(strategies, conditions, order_by_, limit_, offset_,
                                       BaseQuery))
    /\ UNCHANGED <<strategies, conditions, offset_, limit_, order_by_,
                   kwargsLog, regLog, orderLog>>
    /\ UNCHANGED outsideBuilder

\* registration calls made after the factory returned
RegsMade == Len(regLog) - Len(FactoryCalls)

\* filter, build and reset on the user builder
CompFilter == \E kwargs \in CompKwargs :
    Len(kwargsLog) + Len(kwargs) <= MaxConds /\ Filter(kwargs)

Next == CompFilter \/ Build \/ Reset

Spec == Init /\ [][Next]_vars

\* one strategy at a time, with values of every type
StrategyRegister == \E c \in StrategyRegs :
    RegsMade < MaxStrategyRegs /\ RegisterStrategy(c.name, c.strategy)

StrategyFilter == \E kwargs \in StrategyKwargs :
    Len(kwargsLog) + Len(kwargs) <= MaxStrategyConds /\ Filter(kwargs)

StrategyClear == \E i \in 1..Len(conditions) : ClearListValue(i)

NextStrategy == StrategyRegister \/ StrategyFilter \/ StrategyClear \/ Build

SpecStrategy == Init /\ [][NextStrategy]_vars

\* registration on top of the factory's table
RegRegister == \E c \in RegInputs :
    RegsMade < MaxRegs /\ RegisterStrategy(c.name, c.strategy)

RegAuto == \E cfg \in AutoInputs :
    RegsMade < MaxRegs /\ AutoRegister(cfg)

NextRegister == RegRegister \/ RegAuto

SpecRegister == Init /\ [][NextRegister]_vars

\* ordering and pagination, on the user builder or on a builder just constructed
InitPaginate ==
    \/ Init
    \/ /\ strategies = PaginatedQueryBuilder.strategies
       /\ conditions = PaginatedQueryBuilder.conditions
       /\ offset_ = PaginatedQueryBuilder.offset
       /\ limit_ = PaginatedQueryBuilder.limit
       /\ order_by_ = PaginatedQueryBuilder.order_by
       /\ ret = Self("PaginatedQueryBuilder")
       /\ kwargsLog = <<>>
       /\ regLog = <<>>
       /\ orderLog = <<>>
       /\ OutsideInit

PagePaginate == \E o \in Offsets, l \in Limits : Paginate(o, l)

PageOrderBy == \E fields \in OrderInputs :
    Len(orderLog) + Len(fields) <= MaxOrderItems /\ OrderBy(fields)

PageFilter == \E kwargs \in PageKwargs :
    Len(kwargsLog) + Len(kwargs) <= MaxPageConds /\ Filter(kwargs)

NextPaginate == PagePaginate \/ PageOrderBy \/ PageFilter \/ BuildPaginated

SpecPaginate == InitPaginate /\ [][NextPaginate]_vars

\* filters keyed by a bare field name
BareFilter == \E kwargs \in BareKwargs :
    Len(kwargsLog) + Len(kwargs) <= MaxBareConds /\ Filter(kwargs)

NextBare == BareFilter \/ Build \/ Reset

SpecBare == Init /\ [][NextBare]_vars

\* a paginated builder that is reset and used again
NextReuse == PagePaginate \/ PageOrderBy \/ PageFilter \/ BuildPaginated \/ Reset

SpecReuse == InitPaginate /\ [][NextReuse]_vars

\* list_all(offset, limit, **filters) run by several requests on one builder
\* instead of a builder of its own: each call on the builder is one step
ListAllFilter(r, offset, limit, filters) ==
    /\ requests[r].pc = "start"
    /\ conditions' = filter(conditions, filters)
    /\ kwargsLog' = kwargsLog \o filters
    /\ ret' = Self("filter")
    /\ requests' = [requests EXCEPT ![r] = Request("filtered", filters, offset, limit, @.query)]
    /\ UNCHANGED <<strategies, offset_, limit_, order_by_, regLog, orderLog>>
    /\ UNCHANGED <<mappings, reverse_mappings, heap, callLog, serviceVars>>

ListAllPaginate(r) ==
    /\ requests[r].pc = "filtered"
    /\ offset_' = requests[r].offset
    /\ limit_' = requests[r].limit
    /\ ret' = Self("paginate")
    /\ requests' = [requests EXCEPT ![r].pc = "paginated"]
    /\ UNCHANGED <<strategies, conditions, order_by_, kwargsLog, regLog, orderLog>>
    /\ UNCHANGED <<mappings, reverse_mappings, heap, callLog, serviceVars>>

ListAllBuildPaginated(r) ==
    /\ requests[r].pc = "paginated"
    /\ ret' = Returned("build_paginated",
                       build_paginated(strategies, conditions, order_by_, limit_, offset_,
                                       BaseQuery))
    /\ requests' = [requests EXCEPT ![r].pc = "done", ![r].query = ret']
    /\ UNCHANGED <<strategies, conditions, offset_, limit_, order_by_,
                   kwargsLog, regLog, orderLog>>
    /\ UNCHANGED <<mappings, reverse_mappings, heap, callLog, serviceVars>>

SharedFilter == \E r \in Requests, o \in SharedOffsets, l \in SharedLimits, f \in SharedKwargs :
    ListAllFilter(r, o, l, f)

SharedPaginate == \E r \in Requests : ListAllPaginate(r)

SharedBuildPaginated == \E r \in Requests : ListAllBuildPaginated(r)

NextShared == SharedFilter \/ SharedPaginate \/ SharedBuildPaginated

SpecShared == Init /\ [][NextShared]_vars

\* a call of list_all, list_all_with_count or count_total: where it is, its
\* arguments, its local query_builder and the query it executes
ListCall(pc, args, builder, query) ==
    [pc |-> pc, method |-> args.method, filters |-> args.filters, offset |-> args.offset,
     limit |-> args.limit, builder |-> builder, query |-> query]

ArgsOf(call) == ListArgs(call.method, call.offset, call.limit, call.filters)

\* query_builder = create_user_query_builder()
ListCreate(r, args) ==
    /\ requests[r].pc = "start"
    /\ requests' = [requests EXCEPT
                        ![r] = ListCall("created", args, create_user_query_builder, Self("none"))]
    /\ UNCHANGED <<builderVars, mappings, reverse_mappings, heap, callLog, serviceVars>>

\* query_builder.filter(**filters)
ListFilter(r) ==
    /\ requests[r].pc = "created"
    /\ requests' = [requests EXCEPT ![r].pc = "filtered",
                                    ![r].builder.conditions = filter(@, requests[r].filters)]
    /\ UNCHANGED <<builderVars, mappings, reverse_mappings, heap, callLog, serviceVars>>

\* the sort block of list_all_with_count
ListSort(r) ==
    /\ requests[r].pc = "filtered"
    /\ requests[r].method = "list_all_with_count"
    /\ LET sorted == sort_order(requests[r].builder.order_by, requests[r].filters)
       IN  requests' = [requests EXCEPT
                ![r] = IF sorted.raised
                       THEN [@ EXCEPT !.pc = "done",
                                      !.query = Returned("sort", Raised(BaseQuery))]
                       ELSE [@ EXCEPT !.pc = "sorted", !.builder.order_by = sorted.order]]
    /\ UNCHANGED <<builderVars, mappings, reverse_mappings, heap, callLog, serviceVars>>

\* query_builder.paginate(offset=offset, limit=limit)
ListPaginate(r) ==
    /\ \/ requests[r].pc = "filtered" /\ requests[r].method = "list_all"
       \/ requests[r].pc = "sorted"
    /\ requests' = [requests EXCEPT ![r].pc = "paginated",
                                    ![r].builder.offset = requests[r].offset,
                                    ![r].builder.limit = requests[r].limit]
    /\ UNCHANGED <<builderVars, mappings, reverse_mappings, heap, callLog, serviceVars>>

\* .build_paginated(base_query), and query_builder.build(stmt) in count_total
ListBuild(r) ==
    /\ \/ requests[r].pc = "paginated"
       \/ requests[r].pc = "filtered" /\ requests[r].method = "count_total"
    /\ LET b == requests[r].builder
       IN  requests' = [requests EXCEPT
                ![r].pc = "done",
                ![r].query =
                    IF requests[r].method = "count_total"
                    THEN Returned("build", build(b.strategies, b.conditions, BaseQuery))
                    ELSE Returned("build_paginated",
                                  build_paginated(b.strategies, b.conditions, b.order_by,
                                                  b.limit, b.offset, BaseQuery))]
    /\ UNCHANGED <<builderVars, mappings, reverse_mappings, heap, callLog, serviceVars>>

RepoCreate == \E r \in Requests, args \in ListInputs : ListCreate(r, args)
RepoFilter == \E r \in Requests : ListFilter(r)
RepoSort == \E r \in Requests : ListSort(r)
RepoPaginate == \E r \in Requests : ListPaginate(r)
RepoBuild == \E r \in Requests : ListBuild(r)

\* concurrent calls of the list methods, every builder call one step
NextRepo == RepoCreate \/ RepoFilter \/ RepoSort \/ RepoPaginate \/ RepoBuild

SpecRepo == Init /\ [][NextRepo]_vars

(***************************************************************************)
(* login_access_token, refresh_token and logout: every await on Redis or   *)
(* on the database is one step, so requests interleave between them.       *)
(***************************************************************************)
\* an entry of callLog
Call(op, arg, raised, value) == [op |-> op, arg |-> arg, raised |-> raised, value |-> value]

Response(status, accessToken, refreshToken) ==
    [status |-> status, accessToken |-> accessToken, refreshToken |-> refreshToken]
NoResponse == Response(0, NoToken, NoToken)
Failure(status) == Response(status, NoToken, NoToken)

LoginArgs(username, password, captchaId, captchaCode) ==
    [username |-> username, password |-> password,
     captchaId |-> captchaId, captchaCode |-> captchaCode]

\* the right and a wrong password, with and without the captcha fields
LoginInputs ==
    { LoginArgs("admin", p, c[1], c[2]) :
        p \in {"secret", "wrong"}, c \in {<<"", "">>, <<"id1", "abcd">>} }

LoginCall(pc, args, failures, user, response) ==
    [pc |-> pc, handler |-> "login_access_token", username |-> args.username,
     password |-> args.password, captchaId |-> args.captchaId,
     captchaCode |-> args.captchaCode, failures |-> failures, user |-> user,
     response |-> response]

Idle(r) == requests[r].pc \in {"start", "done"}
InLogin(r, pc) ==
    /\ ~Idle(r)
    /\ requests[r].handler = "login_access_token"
    /\ requests[r].pc = pc
\* the handler returns: its locals are gone, the response is what is left
Respond(r, response) ==
    requests' = [requests EXCEPT ![r].pc = "done", ![r].failures = 0,
                                 ![r].response = response]
Goto(r, pc) == requests' = [requests EXCEPT ![r].pc = pc]

\* login requests for a username that are between their first and last step
InFlight(username) ==
    Cardinality({ r \in Requests : ~Idle(r) /\ requests[r].handler = "login_access_token"
                                   /\ requests[r].username = username })

\* captcha_id / captcha_code: an empty field is None, and None is falsy
CaptchaGiven(call) == call.captchaId # "" /\ call.captchaCode # ""

\* check_login_security, first await: record_login_failure(username)
LoginSecurity(r, args) ==
    /\ Idle(r)
    /\ redis.login_failures[args.username] + 2 * InFlight(args.username) + 2 <= MaxFailures
    /\ attempts[args.username] + InFlight(args.username) < MaxFailures
    /\ LET counted == record_login_failure(redis, args.username)
       IN  /\ redis' = counted.redis
           /\ requests' = [requests EXCEPT
                    ![r] = LoginCall("counted", args, counted.value, NoUser, NoResponse)]
    /\ UNCHANGED <<builderVars, mappings, reverse_mappings, heap, callLog,
                   clock, attempts, sys_dept>>

\* check_login_security, second await: is_account_locked(username), and the
\* test of security_status["is_locked"]
LoginLocked(r) ==
    /\ InLogin(r, "counted")
    /\ IF is_account_locked(redis, requests[r].username)
       THEN Respond(r, Failure(400))
       ELSE IF CaptchaGiven(requests[r]) THEN Goto(r, "captcha") ELSE Goto(r, "reset")
    /\ UNCHANGED <<builderVars, mappings, reverse_mappings, heap, callLog, serviceVars>>

\* verify_captcha(captcha_id, captcha_code): the stored code matches or not
LoginCaptcha(r, matches) ==
    /\ InLogin(r, "captcha")
    /\ IF matches THEN Goto(r, "authenticate") ELSE Respond(r, Failure(400))
    /\ UNCHANGED <<builderVars, mappings, reverse_mappings, heap, callLog, serviceVars>>

\* user = await auth_service.authenticate_user(email=username, password=password)
LoginAuthenticate(r) ==
    /\ InLogin(r, "authenticate")
    /\ LET user == authenticate_user(requests[r].username, requests[r].password)
       IN  /\ IF ~Bound(user)
              THEN requests' = [requests EXCEPT ![r].pc = "failed", ![r].user = user]
              ELSE IF ~user.is_active
                   THEN requests' = [requests EXCEPT ![r].pc = "done", ![r].user = user,
                                                     ![r].failures = 0,
                                                     ![r].response = Failure(400)]
                   ELSE requests' = [requests EXCEPT ![r].pc = "reset", ![r].user = user]
           /\ attempts' = [attempts EXCEPT
                              ![requests[r].username] = IF Bound(user) THEN 0 ELSE @ + 1]
    /\ UNCHANGED <<builderVars, mappings, reverse_mappings, heap, callLog,
                   redis, clock, sys_dept>>

\* record_login_failure(username); failures = security_status["failures"] + 1
LoginRecordFailure(r) ==
    /\ InLogin(r, "failed")
    /\ redis' = record_login_failure(redis, requests[r].username).redis
    /\ IF requests[r].failures + 1 >= MaxAttempts
       THEN Goto(r, "lock")
       ELSE Respond(r, Failure(400))
    /\ UNCHANGED <<builderVars, mappings, reverse_mappings, heap, callLog,
                   clock, attempts, sys_dept>>

\* lock_account(username, 1800)
LoginLock(r) ==
    /\ InLogin(r, "lock")
    /\ redis' = lock_account(redis, requests[r].username)
    /\ Respond(r, Failure(400))
    /\ UNCHANGED <<builderVars, mappings, reverse_mappings, heap, callLog,
                   clock, attempts, sys_dept>>

\* reset_login_failure(username), then user.id: an unbound user is an
\* UnboundLocalError, answered with 500
LoginReset(r) ==
    /\ InLogin(r, "reset")
    /\ redis' = reset_login_failure(redis, requests[r].username)
    /\ IF Bound(requests[r].user) THEN Goto(r, "issue") ELSE Respond(r, Failure(500))
    /\ UNCHANGED <<builderVars, mappings, reverse_mappings, heap, callLog,
                   clock, attempts, sys_dept>>

\* update_last_login, the two tokens, cache_refresh_token(user.id, ...)
LoginIssue(r) ==
    /\ InLogin(r, "issue")
    /\ LET user == requests[r].user
           access_token == create_access_token(user.id, ACCESS_TOKEN_EXPIRE_MINUTES, clock)
           refresh_token == create_refresh_token([sub |-> user.id], clock)
       IN  /\ redis' = cache_refresh_token(redis, user.id, refresh_token)
           /\ Respond(r, Response(200, access_token, refresh_token))
    /\ UNCHANGED <<builderVars, mappings, reverse_mappings, heap, callLog,
                   clock, attempts, sys_dept>>

LoginStart == \E r \in Requests, args \in LoginInputs : LoginSecurity(r, args)
LoginCheckLock == \E r \in Requests : LoginLocked(r)
LoginVerifyCaptcha == \E r \in Requests, matches \in BOOLEAN : LoginCaptcha(r, matches)
LoginVerifyUser == \E r \in Requests : LoginAuthenticate(r)
LoginCountFailure == \E r \in Requests : LoginRecordFailure(r)
LoginLockAccount == \E r \in Requests : LoginLock(r)
LoginClear == \E r \in Requests : LoginReset(r)
LoginTokens == \E r \in Requests : LoginIssue(r)

\* concurrent login requests
NextLogin ==
    \/ LoginStart \/ LoginCheckLock \/ LoginVerifyCaptcha \/ LoginVerifyUser
    \/ LoginCountFailure \/ LoginLockAccount \/ LoginClear \/ LoginTokens

SpecLogin == Init /\ [][NextLogin]_vars

(***************************************************************************)
(* /refresh-token and /logout beside the logins that succeed.              *)
(***************************************************************************)
RefreshCall(pc, refresh_token, user_id, response) ==
    [pc |-> pc, handler |-> "refresh_token", refresh_token |-> refresh_token,
     user_id |-> user_id, response |-> response]

InRefresh(r, pc) ==
    /\ ~Idle(r)
    /\ requests[r].handler = "refresh_token"
    /\ requests[r].pc = pc

\* the refresh tokens a client can hold: one per user and second of issue
RefreshTokens ==
    { create_refresh_token([sub |-> i], c) : i \in UserIds, c \in 0..MaxClock }

\* the exchanges made so far, and the requests that may still make one
Exchanges == { i \in DOMAIN callLog : callLog[i].op = "refresh_token" }
Exchanging == { r \in Requests : ~Idle(r) /\ requests[r].handler = "refresh_token" }

\* refresh_token up to the comparison with the cached token
RefreshRead(r, refresh_token) ==
    /\ Idle(r)
    /\ Cardinality(Exchanges) + Cardinality(Exchanging) < MaxExchanges
    /\ LET subject == extract_token_subject(refresh_token, clock)
           call == RefreshCall("rotate", refresh_token, subject.value, NoResponse)
       IN  requests' = [requests EXCEPT
                ![r] = IF refresh_token = NoToken
                       THEN [call EXCEPT !.pc = "done", !.response = Failure(400)]
                       ELSE IF subject.raised
                       THEN [call EXCEPT !.pc = "done", !.response = Failure(500)]
                       ELSE IF get_refresh_token(redis, subject.value) # refresh_token
                       THEN [call EXCEPT !.pc = "done", !.response = Failure(401)]
                       ELSE call]
    /\ UNCHANGED <<builderVars, mappings, reverse_mappings, heap, callLog, serviceVars>>

\* the new pair of tokens and cache_refresh_token(user_id, new_refresh_token)
RefreshRotate(r) ==
    /\ InRefresh(r, "rotate")
    /\ LET call == requests[r]
           new_access_token == refresh_access_token(call.refresh_token, clock)
           new_refresh_token == create_refresh_token([sub |-> call.user_id], clock)
       IN  IF new_access_token.raised
           THEN /\ requests' = [requests EXCEPT ![r].pc = "done",
                                                ![r].response = Failure(500)]
                /\ UNCHANGED <<redis, callLog>>
           ELSE /\ redis' = cache_refresh_token(redis, call.user_id, new_refresh_token)
                /\ requests' = [requests EXCEPT
                        ![r].pc = "done",
                        ![r].response = Response(200, new_access_token.value,
                                                 new_refresh_token)]
                /\ callLog' = Append(callLog,
                        Call("refresh_token", call.refresh_token, FALSE,
                             [cached |-> get_refresh_token(redis, call.user_id),
                              issued |-> new_refresh_token]))
    /\ UNCHANGED <<builderVars, mappings, reverse_mappings, heap,
                   clock, attempts, sys_dept>>

\* logout of a user who holds an access token: delete_refresh_token(user.id)
Logout(user_id) ==
    /\ get_refresh_token(redis, user_id) # NoToken
    /\ redis' = delete_refresh_token(redis, user_id)
    /\ UNCHANGED <<builderVars, requests, mappings, reverse_mappings, heap, callLog,
                   clock, attempts, sys_dept>>

\* a second passes
Tick ==
    /\ clock < MaxClock
    /\ clock' = clock + 1
    /\ UNCHANGED <<builderVars, requests, mappings, reverse_mappings, heap, callLog,
                   redis, attempts, sys_dept>>

RefreshLogin ==
    \E r \in Requests : LoginSecurity(r, LoginArgs("admin", "secret", "id1", "abcd"))
RefreshStart == \E r \in Requests, t \in RefreshTokens \cup {NoToken} : RefreshRead(r, t)
RefreshExchange == \E r \in Requests : RefreshRotate(r)
RefreshLogout == \E i \in UserIds : Logout(i)

\* logins with the right password, refreshes and logouts, interleaved
NextRefresh ==
    \/ RefreshLogin \/ LoginCheckLock \/ LoginVerifyCaptcha \/ LoginVerifyUser
    \/ LoginClear \/ LoginTokens
    \/ RefreshStart \/ RefreshExchange \/ RefreshLogout \/ Tick

SpecRefresh == Init /\ [][NextRefresh]_vars

(***************************************************************************)
(* DeptService.create_dept and update_dept over the sys_dept table: every  *)
(* query is one step.  A department's id is its position in sys_dept.      *)
(***************************************************************************)
DeptIds == 1..MaxDepts

\* DeptRepository.get_by_id: the row, or None
NoRow == [id |-> NoDept, parent_id |-> NoDept]
get_by_id(table, dept_id) ==
    IF dept_id \in DOMAIN table
    THEN [id |-> dept_id, parent_id |-> table[dept_id]]
    ELSE NoRow

DeptCall(pc, method, dept_id, parent_id, current_parent_id, result) ==
    [pc |-> pc, handler |-> method, dept_id |-> dept_id, parent_id |-> parent_id,
     current_parent_id |-> current_parent_id, result |-> result]

InDept(r, method, pc) ==
    /\ ~Idle(r)
    /\ requests[r].handler = method
    /\ requests[r].pc = pc

\* the method returns or raises: its locals are gone
Finish(r, result) ==
    requests' = [requests EXCEPT ![r].pc = "done", ![r].current_parent_id = NoDept,
                                 ![r].result = result]

Creating == { r \in Requests : ~Idle(r) /\ requests[r].handler = "create_dept" }

\* create_dept up to the insert: the parent, when one is named, must exist
CreateCheck(r, parent_id) ==
    /\ Idle(r)
    /\ Len(sys_dept) + Cardinality(Creating) < MaxDepts
    /\ LET call == DeptCall("create", "create_dept", NoDept, parent_id, NoDept, "")
       IN  requests' = [requests EXCEPT
                ![r] = IF parent_id # NoDept /\ get_by_id(sys_dept, parent_id) = NoRow
                       THEN [call EXCEPT !.pc = "done", !.result = "BadRequest"]
                       ELSE call]
    /\ UNCHANGED <<builderVars, mappings, reverse_mappings, heap, callLog, serviceVars>>

\* dept_repository.create(dept_data, session): a row with a new id
CreateInsert(r) ==
    /\ InDept(r, "create_dept", "create")
    /\ sys_dept' = Append(sys_dept, requests[r].parent_id)
    /\ requests' = [requests EXCEPT ![r].pc = "done", ![r].dept_id = Len(sys_dept) + 1,
                                    ![r].result = "ok"]
    /\ UNCHANGED <<builderVars, mappings, reverse_mappings, heap, callLog,
                   redis, clock, attempts>>

\* update_dept from get_dept_by_id to the test that the parent is not the
\* department itself
UpdateGet(r, dept_id, parent_id) ==
    /\ Idle(r)
    /\ LET dept == get_by_id(sys_dept, dept_id)
           call == DeptCall("parent", "update_dept", dept_id, parent_id, NoDept, "")
       IN  requests' = [requests EXCEPT
                ![r] = IF dept = NoRow
                       THEN [call EXCEPT !.pc = "done", !.result = "ResourceNotFound"]
                       ELSE IF parent_id # NoDept /\ parent_id # dept.parent_id
                       THEN IF parent_id = dept_id
                            THEN [call EXCEPT !.pc = "done", !.result = "BadRequest"]
                            ELSE call
                       ELSE [call EXCEPT !.pc = "update"]]
    /\ UNCHANGED <<builderVars, mappings, reverse_mappings, heap, callLog, serviceVars>>

\* parent_dept = get_by_id(dept_update.parent_id); the walk starts there
UpdateParent(r) ==
    /\ InDept(r, "update_dept", "parent")
    /\ IF get_by_id(sys_dept, requests[r].parent_id) = NoRow
       THEN Finish(r, "BadRequest")
       ELSE requests' = [requests EXCEPT ![r].pc = "walk",
                                         ![r].current_parent_id = requests[r].parent_id]
    /\ UNCHANGED <<builderVars, mappings, reverse_mappings, heap, callLog, serviceVars>>

\* one round of the loop of _is_circular_reference
UpdateWalk(r) ==
    /\ InDept(r, "update_dept", "walk")
    /\ LET parent_dept == get_by_id(sys_dept, requests[r].current_parent_id)
       IN  IF requests[r].current_parent_id = requests[r].dept_id
           THEN Finish(r, "BadRequest")
           ELSE IF parent_dept = NoRow \/ parent_dept.parent_id = NoDept
           THEN requests' = [requests EXCEPT ![r].pc = "update",
                                             ![r].current_parent_id = NoDept]
           ELSE requests' = [requests EXCEPT
                                ![r].current_parent_id = parent_dept.parent_id]
    /\ UNCHANGED <<builderVars, mappings, reverse_mappings, heap, callLog, serviceVars>>

\* setattr(dept, 'parent_id', ...), dept_repository.update(dept, session) and
\* the commit.  update() refreshes dept from the row before anything was
\* flushed: the pending change reaches the row, or the refresh discards it.
UpdateWrite(r, flushed) ==
    /\ InDept(r, "update_dept", "update")
    /\ sys_dept' = IF flushed
                   THEN [sys_dept EXCEPT ![requests[r].dept_id] = requests[r].parent_id]
                   ELSE sys_dept
    /\ Finish(r, "ok")
    /\ UNCHANGED <<builderVars, mappings, reverse_mappings, heap, callLog,
                   redis, clock, attempts>>

DeptCreate == \E r \in Requests, p \in {NoDept} \cup DeptIds : CreateCheck(r, p)
DeptInsert == \E r \in Requests : CreateInsert(r)
DeptUpdate == \E r \in Requests, d \in DeptIds, p \in {NoDept} \cup DeptIds : UpdateGet(r, d, p)
DeptParent == \E r \in Requests : UpdateParent(r)
DeptWalk == \E r \in Requests : UpdateWalk(r)
DeptWrite == \E r \in Requests, flushed \in BOOLEAN : UpdateWrite(r, flushed)

\* concurrent create_dept and update_dept calls
NextDept == DeptCreate \/ DeptInsert \/ DeptUpdate \/ DeptParent \/ DeptWalk \/ DeptWrite

SpecDept == Init /\ [][NextDept]_vars

\* the FieldMapper object
Mapper == [mappings |-> mappings, reverse_mappings |-> reverse_mappings]


\* the builder and its callers as constructed, the mapper given
InitWith(mapper, h) ==
    /\ strategies = create_user_query_builder.strategies
    /\ conditions = create_user_query_builder.conditions
    /\ offset_ = create_user_query_builder.offset
    /\ limit_ = create_user_query_builder.limit
    /\ order_by_ = create_user_query_builder.order_by
    /\ ret = Self("create_user_query_builder")
    /\ kwargsLog = <<>>
    /\ regLog = FactoryCalls
    /\ orderLog = <<Directive("create_time", "desc")>>
    /\ requests = [r \in Requests |-> NotStarted]
    /\ mappings = mapper.mappings
    /\ reverse_mappings = mapper.reverse_mappings
    /\ heap = h
    /\ callLog = <<>>
    /\ ServiceInit

RegisterMapping(backend_key, frontend_key) ==
    /\ mappings' = register_mapping(Mapper, backend_key, frontend_key).mappings
    /\ reverse_mappings' = register_mapping(Mapper, backend_key, frontend_key).reverse_mappings
    /\ callLog' = Append(callLog, Call("register_mapping", Item(backend_key, frontend_key), FALSE, NoneD))
    /\ UNCHANGED <<builderVars, requests, heap, serviceVars>>

BatchRegisterMappings(new_mappings) ==
    /\ mappings' = batch_register_mappings(Mapper, new_mappings).mappings
    /\ reverse_mappings' = batch_register_mappings(Mapper, new_mappings).reverse_mappings
    /\ callLog' = Append(callLog, Call("batch_register_mappings", new_mappings, FALSE, NoneD))
    /\ UNCHANGED <<builderVars, requests, heap, serviceVars>>

BackendToFrontend(data) ==
    LET r == backend_to_frontend(heap, Mapper, data)
    IN  /\ heap' = r.heap
        /\ callLog' = Append(callLog, Call("backend_to_frontend", data, r.raised, r.value))
        /\ UNCHANGED <<builderVars, requests, mappings, reverse_mappings, serviceVars>>

FrontendToBackend(data) ==
    LET r == frontend_to_backend(heap, Mapper, data)
    IN  /\ heap' = r.heap
        /\ callLog' = Append(callLog, Call("frontend_to_backend", data, r.raised, r.value))
        /\ UNCHANGED <<builderVars, requests, mappings, reverse_mappings, serviceVars>>

ToSnakeCase(text) ==
    /\ callLog' = Append(callLog, Call("to_snake_case", text, FALSE, to_snake_case(text)))
    /\ UNCHANGED <<builderVars, requests, mappings, reverse_mappings, heap, serviceVars>>

ToCamelCase(text, first_upper) ==
    /\ callLog' = Append(callLog, Call("to_camel_case", [text |-> text, first_upper |-> first_upper],
                                       FALSE, to_camel_case(text, first_upper)))
    /\ UNCHANGED <<builderVars, requests, mappings, reverse_mappings, heap, serviceVars>>

\* what a caller can pass on: the argument the run started with, or what the
\* last call returned
Passable ==
    (IF heap # <<>> THEN {Ref(1)} ELSE {})
        \cup (IF callLog # <<>> /\ ~callLog[Len(callLog)].raised /\ callLog[Len(callLog)].value.t = "ref"
              THEN {callLog[Len(callLog)].value} ELSE {})

\* the tables: construction with custom mappings, then registrations
InitTables == \E custom \in CustomInputs : InitWith(FieldMapper(custom), <<>>)

TablesRegister == \E it \in RegisterInputs :
    Len(callLog) < MaxRegistrations /\ RegisterMapping(it.key, it.value)

TablesBatch == \E new_mappings \in BatchInputs :
    Len(callLog) < MaxRegistrations /\ BatchRegisterMappings(new_mappings)

NextTables == TablesRegister \/ TablesBatch

SpecTables == InitTables /\ [][NextTables]_vars

\* the case conversions: a name is converted, and the result converted again
InitCase == InitWith(default_mapper, <<>>)

\* the name a caller passes: one of the inputs, then what the last call returned
CaseTexts == IF callLog = <<>> THEN CaseInputs ELSE { callLog[Len(callLog)].value }

CaseSnake == \E text \in CaseTexts :
    Len(callLog) < MaxCaseCalls /\ ToSnakeCase(text)

CaseCamel == \E text \in CaseTexts, first_upper \in BOOLEAN :
    Len(callLog) < MaxCaseCalls /\ ToCamelCase(text, first_upper)

NextCase == CaseSnake \/ CaseCamel

SpecCase == InitCase /\ [][NextCase]_vars

\* UserFieldMapper.to_user_me_response / to_user_profile / to_user_list_item /
\* to_user_detail, through _convert_to_format
ConvertToFormat(user, format_type, perms) ==
    LET r == convert_to_format(heap, Mapper, user, format_type, perms)
    IN  /\ heap' = r.heap
        /\ callLog' = Append(callLog, Call(format_type, user, r.raised, r.value))
        /\ UNCHANGED <<builderVars, requests, mappings, reverse_mappings, serviceVars>>

ExtractBaseData(user) ==
    LET r == extract_base_data(heap, user)
    IN  /\ heap' = r.heap
        /\ callLog' = Append(callLog, Call("extract", user, r.raised, r.value))
        /\ UNCHANGED <<builderVars, requests, mappings, reverse_mappings, serviceVars>>

Transform(format_name, base_data, user, perms) ==
    LET r == transform(heap, Mapper, format_name, base_data, user, perms)
    IN  /\ heap' = r.heap
        /\ callLog' = Append(callLog, Call("transform_" \o format_name, base_data, r.raised, r.value))
        /\ UNCHANGED <<builderVars, requests, mappings, reverse_mappings, serviceVars>>

\* the dicts that extraction returned
Extracted == { callLog[i].value : i \in { j \in DOMAIN callLog : callLog[j].op = "extract" } }

\* the dicts that earlier calls returned
ReturnedDicts == { callLog[i].value : i \in { j \in DOMAIN callLog : ~callLog[j].raised } }

\* the format conversions: UserFieldMapper on its mapper, the strategies on
\* theirs, each given the user at 1; the two directions on what was returned
InitFormat == \E mapper \in {FieldMapper(UserMappings), FieldMapper(FIELD_MAPPINGS)}, h \in UserHeaps :
    InitWith(mapper, h)

FormatUser == \E format_type \in FormatTypes, perms \in PermissionLists(heap, Ref(1)) :
    /\ Len(callLog) < MaxFormatCalls
    /\ Mapper = FieldMapper(UserMappings)
    /\ ConvertToFormat(Ref(1), format_type, perms)

FormatExtract ==
    /\ Len(callLog) < MaxFormatCalls
    /\ Mapper = FieldMapper(FIELD_MAPPINGS)
    /\ ExtractBaseData(Ref(1))

FormatTransform == \E format_name \in FormatNames, base_data \in Extracted,
                      perms \in PermissionLists(heap, Ref(1)) :
    /\ Len(callLog) < MaxFormatCalls
    /\ Mapper = FieldMapper(FIELD_MAPPINGS)
    /\ Transform(format_name, base_data, Ref(1), perms)

FormatForward == \E data \in ReturnedDicts :
    Len(callLog) < MaxFormatCalls /\ BackendToFrontend(data)

FormatBack == \E data \in ReturnedDicts :
    Len(callLog) < MaxFormatCalls /\ FrontendToBackend(data)

NextFormat == FormatUser \/ FormatExtract \/ FormatTransform \/ FormatForward \/ FormatBack

SpecFormat == InitFormat /\ [][NextFormat]_vars

\* the two directions, on the mappers of the repository
InitConvert == \E mapper \in RepoMappers, h \in ConvertHeaps : InitWith(mapper, h)

ConvertForward == \E data \in Passable :
    Len(callLog) < MaxConversions /\ BackendToFrontend(data)

ConvertBack == \E data \in Passable :
    Len(callLog) < MaxConversions /\ FrontendToBackend(data)

NextConvert == ConvertForward \/ ConvertBack

SpecConvert == InitConvert /\ [][NextConvert]_vars

(***************************************************************************)
(* Properties.                                                             *)
(***************************************************************************)
PredSet(query) == Range(query.whereclause)
Registered(c) == c.key \in DOMAIN strategies

\* the pairs the last filter() call was given
LastKwargs == SubSeq(kwargsLog', Len(kwargsLog) + 1, Len(kwargsLog'))

C1_NonEmpty(v) ==
    /\ v.t # "none"
    /\ ~(v.t = "str" /\ v.s = "")
    /\ ~(v.t = "list" /\ Len(v.items) = 0)

\* C1: filter() appends exactly one condition, in order, for every pair whose
\* value is not None, "" or [] (0 and False are kept, registered key or not)
\* and nothing for the others; a builder that was only ever given such empty
\* values builds the base query.
C1_FilterSkipsOnlyEmptyValues ==
    /\ [][ret'.op = "filter" =>
            conditions' = conditions \o SelectSeq(LastKwargs, LAMBDA p : C1_NonEmpty(p.value))]_vars
    /\ [](ret.op = "build" /\ (\A i \in DOMAIN kwargsLog : ~C1_NonEmpty(kwargsLog[i].value))
            => ~ret.raised /\ ret.query = BaseQuery)

C1_Witness ==
    /\ ret.op = "filter"
    /\ kwargsLog = <<Pair("status__eq", IntV(0)), Pair("status__in", ListV(<<>>))>>
    /\ conditions = <<Pair("status__eq", IntV(0))>>

\* C2: a condition whose key is not a registered strategy never makes build()
\* raise and contributes nothing: the query is the one built from the
\* conditions with registered keys alone.
C2_UnknownKeyIgnored ==
    ret.op = "build" /\ (\E i \in DOMAIN conditions : ~Registered(conditions[i]))
        => /\ ~ret.raised
           /\ ret.query = build(strategies, SelectSeq(conditions, Registered), BaseQuery).query

C2_Witness ==
    /\ ret.op = "build"
    /\ conditions = <<Pair("nosuch", IntV(1)), Pair("status__eq", IntV(1))>>
    /\ ret.query.whereclause = <<Pred("eq", <<"status">>, IntV(1))>>

\* the conditions in the order p, a permutation of their indices
Permuted(conds, p) == [i \in 1..Len(conds) |-> conds[p[i]]]

\* C3: for a non-empty list of conditions with registered keys, build() returns
\* the base query with the predicates of each condition's strategy, all ANDed
\* (status__eq=1 with username__like='adm' gives status == 1 AND username
\* ILIKE '%adm%'), and every order of the conditions gives the same predicates.
C3_AndComposition ==
    ret.op = "build" /\ conditions # <<>> /\ (\A i \in DOMAIN conditions : Registered(conditions[i]))
        => /\ ~ret.raised
           /\ ret.query.order_by = BaseQuery.order_by /\ ~ret.query.limited
           /\ PredSet(ret.query) =
                UNION { PredSet(apply(strategies[c.key], BaseQuery, c.value).query) :
                        c \in Range(conditions) }
           /\ \A p \in Permutations(1..Len(conditions)) :
                PredSet(build(strategies, Permuted(conditions, p), BaseQuery).query)
                    = PredSet(ret.query)
           /\ (conditions = <<Pair("status__eq", IntV(1)), Pair("username__like", StrV("adm"))>>
                => ret.query.whereclause = << Pred("eq", <<"status">>, IntV(1)),
                                              Pred("ilike", <<"username">>, StrV("%adm%")) >>)

C3_Witness ==
    /\ ret.op = "build"
    /\ conditions = <<Pair("username__like", StrV("adm")), Pair("status__eq", IntV(1))>>
    /\ Len(ret.query.whereclause) = 2

\* C4: filter() followed by build() never raises, for any registered strategy
\* and any value, whatever its type.
C4_BuildNeverRaises == ret.op = "build" => ~ret.raised

\* the last second of a day, and the instants around the end of it
LastSecond(day) == day * DaySecs + DaySecs - 1
AroundEndOf(day) == { day * DaySecs, LastSecond(day), LastSecond(day) + 1, LastSecond(day) + 2 }

\* the day an end bound denotes: a datetime at midnight, or a date
IsDayBound(x) == x.t = "date" \/ (x.t = "datetime" /\ x.i % DaySecs = 0)
DayOf(x) == IF x.t = "date" THEN x.i ELSE x.i \div DaySecs

\* C5: with create_time_range's end bound denoting day D, given as a datetime
\* at midnight of D or as the date D, a row matches the upper bound iff its
\* create_time is on or before the last second of D.
C5_EndDayInclusive ==
    /\ ret.op = "build"
    /\ Len(conditions) = 1
    /\ conditions[1].key = "create_time_range"
    /\ conditions[1].value.t = "dict"
    /\ DictGet(conditions[1].value, "start").t = "none"
    /\ IsDayBound(DictGet(conditions[1].value, "end"))
    => /\ ~ret.raised
       /\ \A t \in AroundEndOf(DayOf(DictGet(conditions[1].value, "end"))) :
            RowMatches(ret.query, t)
                <=> t <= LastSecond(DayOf(DictGet(conditions[1].value, "end")))

\* a condition holding an empty list under a key registered with an InFilter
EmptyListForIn(c) ==
    /\ c.value.t = "list" /\ Len(c.value.items) = 0
    /\ Registered(c) /\ strategies[c.key].kind = "InFilter"

\* C6 as stated: an empty list that reaches build() under an InFilter key is
\* rejected by the strategy's validate.
C6_ValidateRejectsEmptyList ==
    \A i \in DOMAIN conditions :
        EmptyListForIn(conditions[i])
            => ~validate(strategies[conditions[i].key], conditions[i].value)

\* C6, amended: filter() adds no condition for an empty list; an empty list
\* that reaches build() under an InFilter key passes validate, and
\* InFilter.apply returns the query unchanged, so no query holds an IN
\* predicate over an empty list.
C6_EmptyListIsNoOp ==
    /\ [][ret'.op = "filter" =>
            /\ \A i \in (Len(conditions) + 1)..Len(conditions') :
                    ~(conditions'[i].value.t = "list" /\ Len(conditions'[i].value.items) = 0)
            /\ (\A j \in DOMAIN LastKwargs :
                    LastKwargs[j].value.t = "list" /\ Len(LastKwargs[j].value.items) = 0)
                => conditions' = conditions]_vars
    /\ [](\A i \in DOMAIN conditions :
            EmptyListForIn(conditions[i])
                => validate(strategies[conditions[i].key], conditions[i].value))
    /\ [](ret.op = "build" /\ ~ret.raised =>
            /\ \A p \in PredSet(ret.query) : p.op = "in" => Len(p.v.items) > 0
            /\ ret.query = build(strategies,
                                 SelectSeq(conditions, LAMBDA c : ~EmptyListForIn(c)),
                                 BaseQuery).query)

C6_Witness ==
    /\ ret.op = "build"
    /\ conditions = <<Pair("status__in", ListV(<<>>))>>
    /\ kwargsLog = <<Pair("status__in", ListV(<<1, 0>>))>>
    /\ ret.query = BaseQuery

\* the strings of the model that spell true, 1 or yes in some letter case
C7_TrueWords == { "true", "TRUE", "True", "1", "yes", "YES", "Yes" }

\* the predicates C7 expects of a BooleanFilter on these fields for value v
C7_Expected(fields, v) ==
    CASE v.t = "bool" -> <<Pred("eq", fields, BoolV(v.i = 1))>>
      [] v.t = "int" /\ v.i = 1 -> <<Pred("eq", fields, BoolV(TRUE))>>
      [] v.t = "int" /\ v.i = 0 -> <<Pred("eq", fields, BoolV(FALSE))>>
      [] v.t = "str" -> <<Pred("eq", fields, BoolV(v.s \in C7_TrueWords))>>
      [] OTHER -> <<>>

\* C7: a BooleanFilter gives field == b for a bool b, field == true for the
\* int 1 and field == false for the int 0, field == true for a string that is
\* "true", "1" or "yes" in any letter case and field == false for any other
\* string, and no predicate for a value of another type.
C7_BooleanCoercion ==
    /\ ret.op = "build"
    /\ Len(conditions) = 1
    /\ Registered(conditions[1])
    /\ strategies[conditions[1].key].kind = "BooleanFilter"
    /\ ~(conditions[1].value.t = "int" /\ conditions[1].value.i \notin {0, 1})
    => /\ ~ret.raised
       /\ ret.query.whereclause
            = C7_Expected(strategies[conditions[1].key].fields, conditions[1].value)

C7_Witness ==
    /\ ret.op = "build"
    /\ conditions = <<Pair("is_deleted__bool", StrV("TRUE"))>>
    /\ ret.query.whereclause = <<Pred("eq", <<"is_deleted">>, BoolV(TRUE))>>

C8_Suffixes == { "__eq", "__ne", "__like", "__range", "__in" }

\* every key a call of the history can have named
C8_Keys ==
    UNION { IF regLog[i].op = "register"
            THEN { regLog[i].name }
            ELSE { regLog[i].cfg[j].field \o x : j \in DOMAIN regLog[i].cfg, x \in C8_Suffixes }
          : i \in DOMAIN regLog }

C8_Flag(config, flag) == flag \in DOMAIN config /\ config[flag]

\* whether auto-registration of this field registers key k
C8_AutoCovers(fc, k) ==
    /\ fc.field \in SysUser
    /\ \/ k = fc.field \o "__eq" /\ ("allow_equal" \notin DOMAIN fc.config \/ fc.config["allow_equal"])
       \/ k = fc.field \o "__ne" /\ C8_Flag(fc.config, "allow_not_equal")
       \/ k = fc.field \o "__like" /\ C8_Flag(fc.config, "allow_like")
       \/ k = fc.field \o "__range" /\ C8_Flag(fc.config, "allow_range")

C8_AutoStrategy(fc, k) ==
    CASE k = fc.field \o "__eq" -> Strategy("EqualFilter", <<fc.field>>)
      [] k = fc.field \o "__ne" -> Strategy("NotEqualFilter", <<fc.field>>)
      [] k = fc.field \o "__like" -> Strategy("LikeFilter", <<fc.field>>)
      [] OTHER -> Strategy("ValueRangeFilter", <<fc.field>>)

C8_Covers(call, k) ==
    IF call.op = "register" THEN call.name = k
    ELSE \E j \in DOMAIN call.cfg : C8_AutoCovers(call.cfg[j], k)

C8_StrategyOf(call, k) ==
    IF call.op = "register" THEN call.strategy
    ELSE C8_AutoStrategy(call.cfg[CHOOSE j \in DOMAIN call.cfg : C8_AutoCovers(call.cfg[j], k)], k)

\* the last call of the history that registers key k
C8_LastCall(k) ==
    regLog[CHOOSE i \in DOMAIN regLog :
              /\ C8_Covers(regLog[i], k)
              /\ \A j \in DOMAIN regLog : C8_Covers(regLog[j], k) => j <= i]

\* C8: the table holds exactly the keys some registration call registered,
\* each with the strategy of the last call that registered it, where
\* auto-registration registers field__eq unless allow_equal is false,
\* field__ne, field__like and field__range only when their flag is true, and
\* nothing for a field the model lacks or for another flag; the factory's
\* table holds status__eq, username__like and create_time_range.
C8_LastRegistrationWins ==
    /\ DOMAIN strategies = { k \in C8_Keys : \E i \in DOMAIN regLog : C8_Covers(regLog[i], k) }
    /\ \A k \in DOMAIN strategies : strategies[k] = C8_StrategyOf(C8_LastCall(k), k)
    /\ regLog = FactoryCalls =>
          /\ {"status__eq", "username__like", "create_time_range"} \subseteq DOMAIN strategies
          /\ strategies["status__eq"] = Strategy("EqualFilter", <<"status">>)
          /\ strategies["username__like"] = Strategy("LikeFilter", <<"username">>)
          /\ strategies["create_time_range"] = Strategy("DateTimeRangeFilter", <<"create_time">>)
          /\ "dept_id__range" \notin DOMAIN strategies

C8_Witness ==
    /\ Len(regLog) = Len(FactoryCalls) + 2
    /\ regLog[Len(regLog) - 1] = RegCall("status__eq", LikeFilter("status"))
    /\ regLog[Len(regLog)] =
          AutoCall(<<FieldConfig("is_deleted",
                                 [allow_equal |-> FALSE, allow_in |-> TRUE, allow_range |-> TRUE])>>)
    /\ strategies["status__eq"] = LikeFilter("status")
    /\ "is_deleted__range" \in DOMAIN strategies
    /\ "is_deleted__eq" \notin DOMAIN strategies

\* the directives the order_by calls of the history registered, in order
C9_Registered ==
    LET kept == SelectSeq(orderLog, LAMBDA d : d.dir # "name" \/ d.field \in SysUser)
    IN  [i \in 1..Len(kept) |->
            IF kept[i].dir = "name" THEN Directive(kept[i].field, "col") ELSE kept[i]]

\* C9: with a limit l > 0, build_paginated returns build()'s query ordered by
\* the registered directives in registration order (names the model lacks
\* ignored, no ORDER BY when there is none) with LIMIT l OFFSET o;
\* paginate(offset=20, limit=10) with create_time descending gives LIMIT 10
\* OFFSET 20 ordered by create_time descending.
C9_PaginatedQuery ==
    ret.op = "build_paginated" /\ limit_.t = "int" /\ limit_.i > 0
        => /\ ~ret.raised
           /\ ret.query.whereclause = build(strategies, conditions, BaseQuery).query.whereclause
           /\ Len(ret.query.order_by) = Len(C9_Registered)
           /\ \A i \in DOMAIN ret.query.order_by : ret.query.order_by[i] = C9_Registered[i]
           /\ ret.query.limited /\ ret.query.limit = limit_ /\ ret.query.offset = offset_
           /\ (offset_ = IntS(20) /\ limit_ = IntS(10)
                 /\ orderLog = <<Directive("create_time", "desc")>>
                 => /\ ret.query.order_by = <<Directive("create_time", "desc")>>
                    /\ ret.query.limit.i = 10 /\ ret.query.offset.i = 20)

C9_Witness ==
    /\ ret.op = "build_paginated"
    /\ offset_ = IntS(20) /\ limit_ = IntS(10)
    /\ orderLog = <<Directive("create_time", "desc"), Directive("nosuch", "name"),
                    Directive("username", "name")>>
    /\ ret.query.order_by = <<Directive("create_time", "desc"), Directive("username", "col")>>
    /\ ret.query.limited

\* C10: a query build_paginated returns has a window only if the configured
\* limit is greater than 0, and then its OFFSET is at least 0; for a limit of
\* 0, None or below 0 it has neither LIMIT nor OFFSET.
C10_WindowOnlyForPositiveLimit ==
    ret.op = "build_paginated" /\ ~ret.raised
        => /\ ret.query.limited
                => limit_.t = "int" /\ limit_.i > 0 /\ ret.query.offset.i >= 0
           /\ ~(limit_.t = "int" /\ limit_.i > 0) => ~ret.query.limited

\* the predicates that a list_all call with these filters gets from a builder
\* of its own
OwnPreds(filters) ==
    PredSet(build(strategies, filter(<<>>, filters), BaseQuery).query)

\* C11: when one builder serves several requests that each filter and then
\* build without a reset, the query built for a request holds the predicates
\* of every request that filtered before it built: the predicates of another
\* request's filter values are in it.
C11_FiltersLeakAcrossRequests ==
    [][\A r \in Requests :
          requests[r].pc = "paginated" /\ requests'[r].pc = "done"
            => /\ ~requests'[r].query.raised
               /\ \A r2 \in Requests :
                    requests[r2].pc # "start"
                        => OwnPreds(requests[r2].filters) \subseteq PredSet(requests'[r].query.query)]_vars

C11_Witness ==
    \E r, r2 \in Requests :
        /\ r # r2
        /\ requests[r].pc = "done"
        /\ requests[r].filters = <<Pair("status__eq", IntV(1))>>
        /\ requests[r2].filters = <<Pair("username__like", StrV("adm"))>>
        /\ Pred("ilike", <<"username">>, StrV("%adm%")) \in PredSet(requests[r].query.query)
        /\ Pred("ilike", <<"username">>, StrV("%adm%")) \notin OwnPreds(requests[r].filters)

\* the builder as its constructor (or the factory) returned it, with the
\* strategies it has now
C12_Fresh ==
    IF regLog = <<>>
    THEN [PaginatedQueryBuilder EXCEPT !.strategies = strategies]
    ELSE [create_user_query_builder EXCEPT !.strategies = strategies]

\* C12: right after reset() a paginated builder builds the query that a
\* freshly constructed builder with the same strategies builds: no condition,
\* ordering directive or pagination window set before the reset is in it.
C12_ResetGivesFreshBuilder ==
    ret.op = "reset"
        => build_paginated(strategies, conditions, order_by_, limit_, offset_, BaseQuery)
             = build_paginated(C12_Fresh.strategies, C12_Fresh.conditions, C12_Fresh.order_by,
                               C12_Fresh.limit, C12_Fresh.offset, BaseQuery)

\* the key a bare field name stands for if it means an exact match
C13_AsEq(c) ==
    IF c.key \in SysUser THEN Pair(c.key \o "__eq", c.value) ELSE c

\* C13: a condition keyed by a bare field name of the user builder (status=1,
\* username='admin') gives the exact-match predicate that the key field__eq
\* gives: build() returns the query of the conditions with every bare key
\* replaced by field__eq.
C13_BareKeyIsExactMatch ==
    ret.op = "build"
        => ret.query = build(strategies, [i \in DOMAIN conditions |-> C13_AsEq(conditions[i])],
                             BaseQuery).query

\* the calls of the history that converted a structure and returned
Conversions ==
    { i \in DOMAIN callLog :
        callLog[i].op \in {"backend_to_frontend", "frontend_to_backend"} /\ ~callLog[i].raised }

\* the table a direction looks keys up in, and its fallback
TableOf(direction) ==
    IF direction = "backend_to_frontend" THEN mappings ELSE reverse_mappings
FallbackOf(direction, key) ==
    IF direction = "backend_to_frontend" THEN to_camel_case(key, FALSE) ELSE to_snake_case(key)

\* the name a key is to have: the table's when it has one
C14_NameOf(direction, key) ==
    IF Has(TableOf(direction), key) THEN Get(TableOf(direction), key)
    ELSE FallbackOf(direction, key)

\* dst is src with the keys renamed, at every level
RECURSIVE C14_Renamed(_, _, _)
C14_Renamed(direction, src, dst) ==
    IF IsDict(heap, src)
    THEN /\ IsDict(heap, dst)
         /\ LET from == heap[src.a].items
                to == heap[dst.a].items
            IN  /\ Keys(to) = { C14_NameOf(direction, k) : k \in Keys(from) }
                /\ \A i \in DOMAIN from :
                     \/ \E j \in DOMAIN from :
                            j > i /\ C14_NameOf(direction, from[j].key) = C14_NameOf(direction, from[i].key)
                     \/ C14_Renamed(direction, from[i].value,
                                    Get(to, C14_NameOf(direction, from[i].key)))
    ELSE IF IsList(heap, src)
    THEN /\ IsList(heap, dst)
         /\ Len(heap[dst.a].items) = Len(heap[src.a].items)
         /\ \A i \in DOMAIN heap[src.a].items :
                C14_Renamed(direction, heap[src.a].items[i], heap[dst.a].items[i])
    ELSE dst = src

\* C14: in what backend_to_frontend returns, every key of the forward table
\* has the name the table gives it, and in what frontend_to_backend returns,
\* every key of the reverse table has the name the reverse table gives it;
\* only the other keys have the name the case conversion gives them.  This
\* holds at every level of the structure.
C14_ExplicitMappingOverridesFallback ==
    \A i \in Conversions : C14_Renamed(callLog[i].op, callLog[i].arg, callLog[i].value)

C14_Witness ==
    /\ Mapper = FieldMapper(UserMappings)
    /\ Len(callLog) = 2
    /\ callLog[1].op = "backend_to_frontend" /\ callLog[1].arg = Ref(1)
    /\ heap[1] = NestedHeap[1]
    /\ to_camel_case(<<"i", "d">>, FALSE) = <<"i", "d">>
    /\ Keys(heap[callLog[1].value.a].items) = { <<"u", "s", "e", "r", "I", "d">>, <<"c", "r", "e", "a", "t", "e", "T", "i", "m", "e">>, <<"r", "o", "l", "e", "L", "i", "s", "t">> }
    /\ callLog[2].op = "frontend_to_backend" /\ callLog[2].arg = callLog[1].value
    /\ to_snake_case(<<"u", "s", "e", "r", "I", "d">>) = <<"u", "s", "e", "r", "_", "i", "d">>
    /\ Keys(heap[callLog[2].value.a].items) = { <<"i", "d">>, <<"c", "r", "e", "a", "t", "e", "_", "t", "i", "m", "e">>, <<"r", "o", "l", "e", "_", "l", "i", "s", "t">> }

\* C15: in every state of a FieldMapper, as constructed and after every
\* register_mapping / batch_register_mappings call, the reverse table is the
\* inverse of the forward table (reverse[f] = b exactly when forward[b] = f)
\* and no two backend names have the same frontend name.
C15_ReverseIsInverseOfForward ==
    /\ \A it \in Range(reverse_mappings) :
            Has(mappings, it.value) /\ Get(mappings, it.value) = it.key
    /\ \A it \in Range(mappings) :
            Has(reverse_mappings, it.value) /\ Get(reverse_mappings, it.value) = it.key
    /\ \A it1, it2 \in Range(mappings) : it1.value = it2.value => it1.key = it2.key

\* C16: for a mapper of the repository, a backend name k of its forward table
\* and any value v, frontend_to_backend(backend_to_frontend({k: v})) is {k: v}.
C16_TableRoundTrip ==
    /\ Len(callLog) = 2
    /\ callLog[1].op = "backend_to_frontend" /\ callLog[1].arg = Ref(1)
    /\ callLog[2].op = "frontend_to_backend" /\ callLog[2].arg = callLog[1].value
    /\ heap[1].t = "dict" /\ Len(heap[1].items) = 1
    /\ Has(mappings, heap[1].items[1].key)
    /\ heap[1].items[1].value.t # "ref"
    => /\ ~callLog[2].raised
       /\ IsDict(heap, callLog[2].value)
       /\ heap[callLog[2].value.a] = heap[1]

\* a canonical camelCase name: letters and digits only, a lower-case letter
\* first, no two capitals next to each other
C17_Canonical(x) ==
    /\ x # <<>>
    /\ \A i \in DOMAIN x : IsLower(x[i]) \/ IsUpper(x[i]) \/ IsDigit(x[i])
    /\ IsLower(x[1])
    /\ \A i \in 1..(Len(x) - 1) : ~(IsUpper(x[i]) /\ IsUpper(x[i + 1]))

\* C17: for every canonical camelCase name x of letters and digits,
\* to_camel_case(to_snake_case(x)) is x ("userId2Name" goes through
\* "user_id2_name").
C17_CamelSnakeRoundTrip ==
    /\ Len(callLog) >= 2
       /\ callLog[1].op = "to_snake_case" /\ C17_Canonical(callLog[1].arg)
       /\ callLog[2].op = "to_camel_case" /\ callLog[2].arg = [text |-> callLog[1].value, first_upper |-> FALSE]
       => callLog[2].value = callLog[1].arg
    /\ callLog # <<>> /\ callLog[1].op = "to_snake_case" /\ callLog[1].arg = <<"u", "s", "e", "r", "I", "d", "2", "N", "a", "m", "e">>
       => callLog[1].value = <<"u", "s", "e", "r", "_", "i", "d", "2", "_", "n", "a", "m", "e">>

C17_Witness ==
    /\ Len(callLog) = 2
    /\ callLog[1] = Call("to_snake_case", <<"u", "s", "e", "r", "I", "d", "2", "N", "a", "m", "e">>, FALSE, <<"u", "s", "e", "r", "_", "i", "d", "2", "_", "n", "a", "m", "e">>)
    /\ callLog[2] = Call("to_camel_case", [text |-> <<"u", "s", "e", "r", "_", "i", "d", "2", "_", "n", "a", "m", "e">>, first_upper |-> FALSE], FALSE,
                         <<"u", "s", "e", "r", "I", "d", "2", "N", "a", "m", "e">>)

Max(S) == CHOOSE x \in S : \A y \in S : y <= x

\* how many levels below data its most deeply nested value is, counted up to
\* fuel levels (a cyclic structure has values at every level)
RECURSIVE NestDepth(_, _)
NestDepth(data, fuel) ==
    IF fuel = 0 \/ data.t # "ref" \/ heap[data.a].items = <<>> THEN 0
    ELSE 1 + Max({ NestDepth(IF heap[data.a].t = "dict" THEN it.value ELSE it, fuel - 1) :
                   it \in Range(heap[data.a].items) })

\* C18: backend_to_frontend and frontend_to_backend return the converted
\* structure when no value is nested more than 10 levels below the argument,
\* and raise RecursionError, returning nothing, when one is: a cyclic or too
\* deep structure ends in RecursionError.
C18_DepthBoundedConversion ==
    \A i \in DOMAIN callLog :
        callLog[i].op \in {"backend_to_frontend", "frontend_to_backend"}
            => /\ callLog[i].raised <=> NestDepth(callLog[i].arg, DefaultMaxDepth + 1) > DefaultMaxDepth
               /\ callLog[i].raised => callLog[i].value = NoneD
               /\ ~callLog[i].raised
                    => /\ C14_Renamed(callLog[i].op, callLog[i].arg, callLog[i].value)
                       /\ NestDepth(callLog[i].value, DefaultMaxDepth + 1)
                            = NestDepth(callLog[i].arg, DefaultMaxDepth + 1)

C18_Witness ==
    /\ Len(callLog) = 2
    /\ heap = Chain(DefaultMaxDepth + 1, "dict", IntD(7))
    /\ callLog[1] = Call("backend_to_frontend", Ref(1), TRUE, NoneD)
    /\ callLog[2] = Call("frontend_to_backend", Ref(1), TRUE, NoneD)

\* the calls whose result goes to the HTTP layer: backend_to_frontend and
\* the format conversions
FormatOps == { "me_response", "profile", "list_item", "detail",
               "transform_me_response", "transform_profile", "transform_list_item",
               "transform_detail", "transform_form" }

\* value is a JSON primitive, or a dict or list of such values, fuel levels deep
RECURSIVE JsonSafe(_, _)
JsonSafe(value, fuel) ==
    \/ value.t \in {"none", "int", "str", "bool"}
    \/ /\ value.t = "ref"
       /\ fuel > 0
       /\ heap[value.a].t \in {"dict", "list"}
       /\ \A it \in Range(heap[value.a].items) :
            JsonSafe(IF heap[value.a].t = "dict" THEN it.value ELSE it, fuel - 1)

\* C19: every mapping returned by backend_to_frontend or by a format
\* conversion (me response, profile, list item, detail, form) holds only
\* JSON-safe values: a datetime appears as its ISO-8601 string, an identifier
\* as a string, and no native datetime or UUID is in the output.
C19_OutputIsJsonSafe ==
    \A i \in DOMAIN callLog :
        (callLog[i].op \in FormatOps \cup {"backend_to_frontend"} /\ ~callLog[i].raised)
            => JsonSafe(callLog[i].value, MaxNest)

\* a step leaves every object that was on the heap, and both tables, as they were
C20_InputsUntouched ==
    /\ \A a \in DOMAIN heap : a \in DOMAIN heap' /\ heap'[a] = heap[a]
    /\ mappings' = mappings
    /\ reverse_mappings' = reverse_mappings

C20_BaseKeys == { <<"i", "d">>, <<"u", "s", "e", "r", "n", "a", "m", "e">>, <<"n", "i", "c", "k", "n", "a", "m", "e">>, <<"g", "e", "n", "d", "e", "r">>, <<"e", "m", "a", "i", "l">>, <<"s", "t", "a", "t", "u", "s">>,
                  <<"d", "e", "p", "t", "_", "i", "d">>, <<"c", "r", "e", "a", "t", "e", "_", "t", "i", "m", "e">> }

\* what a format conversion was given under the base key: an attribute of
\* the entity, or an entry of the extracted base data
C20_Source(call, key) ==
    IF heap[call.arg.a].t = "object" THEN GetAttr(heap, call.arg, key)
    ELSE IF Has(heap[call.arg.a].items, key) THEN Get(heap[call.arg.a].items, key)
    ELSE NoneD

\* what the format conversions make of a base value: an identifier becomes
\* its string, a datetime create_time its ISO-8601 string except in the
\* me response of UserFieldMapper
C20_Formatted(call, key) ==
    IF key = <<"c", "r", "e", "a", "t", "e", "_", "t", "i", "m", "e">> /\ call.op # "me_response" /\ C20_Source(call, key).t = "datetime"
    THEN isoformat(C20_Source(call, key))
    ELSE IF key \in { <<"i", "d">>, <<"d", "e", "p", "t", "_", "i", "d">> } THEN StrOf(C20_Source(call, key))
    ELSE C20_Source(call, key)

\* the two directions return their argument with the leaves as they were
C20_DirectionsKeepLeaves ==
    \A i \in DOMAIN callLog :
        (callLog[i].op \in {"backend_to_frontend", "frontend_to_backend"} /\ ~callLog[i].raised)
            => C14_Renamed(callLog[i].op, callLog[i].arg, callLog[i].value)

\* the base entries of what the format conversions return, against Expected
C20_BaseEntries(Expected(_, _)) ==
    \A i \in DOMAIN callLog :
        (callLog[i].op \in FormatOps /\ ~callLog[i].raised)
            => \A key \in C20_BaseKeys :
                 C20_Source(callLog[i], key) # NoneD
                    => LET name == C14_NameOf("backend_to_frontend", key)
                           result == heap[callLog[i].value.a].items
                       IN  Has(result, name) /\ Get(result, name) = Expected(callLog[i], key)

C21_RoleOps == {"me_response", "detail", "transform_me_response", "transform_detail"}

\* the roles of the user at 1, in the user's order, and the codes they grant
C21_Roles == heap[GetAttr(heap, Ref(1), <<"r", "o", "l", "e", "s">>).a].items

C21_Granted ==
    { GetAttr(heap, perm, <<"c", "o", "d", "e">>) :
        perm \in UNION { Range(heap[GetAttr(heap, role, <<"p", "e", "r", "m", "i", "s", "s", "i", "o", "n", "s">>).a].items) :
                         role \in Range(C21_Roles) } }

\* C21: the detail and me-response conversions return in perms each
\* permission code that at least one role of the user grants, exactly once
\* however many roles grant it, and in roles the role codes in the order of
\* the user's roles.
C21_PermsOnceRolesInOrder ==
    \A i \in DOMAIN callLog :
        (callLog[i].op \in C21_RoleOps /\ ~callLog[i].raised)
            => LET result == heap[callLog[i].value.a].items
                   perms == heap[Get(result, <<"p", "e", "r", "m", "s">>).a].items
                   roles == heap[Get(result, <<"r", "o", "l", "e", "s">>).a].items
               IN  /\ Range(perms) = C21_Granted
                   /\ Len(perms) = Cardinality(C21_Granted)
                   /\ roles = [k \in DOMAIN C21_Roles |-> GetAttr(heap, C21_Roles[k], <<"c", "o", "d", "e">>)]

C21_Witness ==
    \E i \in DOMAIN callLog :
        /\ callLog[i].op = "transform_detail"
        /\ ~callLog[i].raised
        /\ heap[Get(heap[callLog[i].value.a].items, <<"r", "o", "l", "e", "s">>).a].items
              = <<StrD("ADMIN"), StrD("GUEST")>>
        /\ heap[Get(heap[callLog[i].value.a].items, <<"p", "e", "r", "m", "s">>).a].items
              = <<StrD("user:list"), StrD("user:add")>>

\* C22: the format dispatcher returns an output mapping for each of the five
\* shapes me_response, profile, list_item, detail and form, and raises
\* ValueError for every other format name.
C22_DispatcherAcceptsFiveShapes ==
    \A i \in DOMAIN callLog :
        callLog[i].op \in FormatTypes
            => /\ callLog[i].raised <=> callLog[i].op \notin FormatNames
               /\ ~callLog[i].raised => IsDict(heap, callLog[i].value)

\* the department of the user at 1, or None
C23_Dept ==
    IF HasAttr(heap, Ref(1), <<"d", "e", "p", "t">>) THEN GetAttr(heap, Ref(1), <<"d", "e", "p", "t">>) ELSE NoneD

\* the names of the roles of the user at 1, joined by ', '
C23_RoleNames ==
    StrD(CommaJoin([k \in DOMAIN C21_Roles |-> GetAttr(heap, C21_Roles[k], <<"n", "a", "m", "e">>)]))

\* the result holds value under exactly the key name
C23_Exposes(result, name, value) == Has(result, name) /\ Get(result, name) = value

C23_Shapes(ops) ==
    \A i \in DOMAIN callLog :
        (callLog[i].op \in FormatOps \cap ops /\ ~callLog[i].raised)
            => LET result == heap[callLog[i].value.a].items
               IN  /\ \A key \in Keys(result) : "_" \notin Range(key) /\ IsLower(key[1])
                   /\ (callLog[i].op \in {"profile", "list_item", "transform_profile",
                                          "transform_list_item"}
                        => /\ C23_Dept # NoneD
                                => C23_Exposes(result, <<"d", "e", "p", "t", "N", "a", "m", "e">>,
                                               GetAttr(heap, C23_Dept, <<"n", "a", "m", "e">>))
                           /\ C21_Roles # <<>>
                                => C23_Exposes(result, <<"r", "o", "l", "e", "N", "a", "m", "e", "s">>, C23_RoleNames))

\* C23: every key of every mapping a format conversion or a format strategy
\* returns is a camelCase frontend name, never a snake_case storage name; the
\* list-item and profile shapes hold the department name under deptName and
\* the comma-joined role names under roleNames.
C23_KeysAreCamelCase == C23_Shapes(FormatOps)

\* the keys that name a credential
C24_CredentialKeys ==
    { <<"p", "a", "s", "s", "w", "o", "r", "d">>, <<"h", "a", "s", "h", "e", "d", "_", "p", "a", "s", "s", "w", "o", "r", "d">>, <<"h", "a", "s", "h", "e", "d", "P", "a", "s", "s", "w", "o", "r", "d">>, <<"t", "o", "k", "e", "n">> }

\* the values of the result, those of its lists included
C24_Values(result) ==
    UNION { IF it.value.t = "ref" THEN Range(heap[it.value.a].items) ELSE {it.value} :
            it \in Range(result) }

\* C24: no mapping a response shape produces from a user holds a credential:
\* it has no password, hashed_password or token key, and the stored password
\* is under no other key either.
C24_NoCredentialInOutput ==
    \A i \in DOMAIN callLog :
        (callLog[i].op \in FormatOps /\ ~callLog[i].raised)
            => LET result == heap[callLog[i].value.a].items
               IN  /\ Keys(result) \cap C24_CredentialKeys = {}
                   /\ GetAttr(heap, Ref(1), <<"p", "a", "s", "s", "w", "o", "r", "d">>) \notin C24_Values(result)

C24_Witness ==
    /\ Len(callLog) = 2
    /\ callLog[1].op = "me_response" /\ ~callLog[1].raised
    /\ callLog[2].op = "list_item" /\ ~callLog[2].raised
    /\ GetAttr(heap, Ref(1), <<"p", "a", "s", "s", "w", "o", "r", "d">>) = StrD("$2b$12$hash")
    /\ C23_Exposes(heap[callLog[2].value.a].items, <<"u", "s", "e", "r", "n", "a", "m", "e">>, StrD("admin"))

\* the calls that have executed their query
C25_Executed == { r \in Requests : requests[r].pc = "done" /\ ~requests[r].query.raised }

\* C25: list_all, list_all_with_count and count_total take a new builder
\* from the factory on every call, so under any interleaving the query a call
\* executes holds exactly the predicates of that call's own filters, only the
\* default ordering and that call's own sort column, and that call's own
\* window: no condition of another call is in it.
C25_OwnBuilderPerCall ==
    \A r \in C25_Executed :
        LET call == requests[r]
            query == call.query.query
        IN  /\ query.whereclause
                 = build(strategies, filter(<<>>, call.filters), BaseQuery).query.whereclause
            /\ \A i \in DOMAIN query.order_by :
                    \/ query.order_by[i] = Directive("create_time", "desc")
                    \/ StrV(query.order_by[i].field) = KwargsGet(call.filters, "sort_field", NoneV)
            /\ IF call.method = "count_total"
               THEN ~query.limited /\ query.order_by = <<>>
               ELSE query.limited /\ query.limit = call.limit /\ query.offset = call.offset

C25_Witness ==
    \E r, r2 \in Requests :
        /\ r \in C25_Executed
        /\ ArgsOf(requests[r]) = ListArgs("list_all", IntS(0), IntS(10),
                                         <<Pair("status__eq", IntV(1))>>)
        /\ PredSet(requests[r].query.query) = {Pred("eq", <<"status">>, IntV(1))}
        /\ requests[r2].pc = "sorted"
        /\ Len(requests[r2].builder.conditions) = 3
        /\ requests[r2].builder.order_by
              = <<Directive("create_time", "desc"), Directive("username", "asc")>>
        /\ requests[r2].offset = IntS(0)

\* the filters without the two sort entries
C26_Unsorted(filters) ==
    SelectSeq(filters, LAMBDA p : p.key \notin {"sort_field", "sort_direction"})

\* C26: when list_all_with_count is given a sort_field that names one of
\* its supported columns, the query is ordered first by that column,
\* ascending when sort_direction is "ASC" in any letter case and descending
\* otherwise; create_time descending comes first only when no sort_field is
\* given.  The sort_field and sort_direction entries add no predicate.
C26_SortFieldIsPrimaryOrdering ==
    \A r \in Requests :
        (requests[r].pc = "done" /\ requests[r].method = "list_all_with_count")
            => LET call == requests[r]
                   query == call.query.query
                   sort_field == KwargsGet(call.filters, "sort_field", NoneV)
                   sort_direction == KwargsGet(call.filters, "sort_direction", StrV("DESC"))
               IN  /\ ~call.query.raised
                   /\ query.order_by # <<>>
                   /\ query.order_by[1]
                        = IF sort_field.t = "str" /\ sort_field.s \in SortColumns
                          THEN Directive(sort_field.s,
                                         IF sort_direction.t = "str"
                                            /\ sort_direction.s \in {"ASC", "asc", "Asc"}
                                         THEN "asc" ELSE "desc")
                          ELSE Directive("create_time", "desc")
                   /\ PredSet(query) = OwnPreds(C26_Unsorted(call.filters))


\* C27: an account is locked only when the failed password attempts for its
\* username since the last successful login have reached MaxAttempts, and
\* once no login request for the username is in flight the stored counter
\* login_failures equals that number of failed attempts
C27_LockedOnlyAfterMaxAttempts ==
    \A u \in Usernames :
        /\ is_account_locked(redis, u) => attempts[u] >= MaxAttempts
        /\ InFlight(u) = 0 => redis.login_failures[u] = attempts[u]


\* the request r takes the step that calls reset_login_failure
C28_Resets(r) == InLogin(r, "reset") /\ requests'[r] # requests[r]

\* the request r takes the step that answers with the two tokens
C28_Issues(r) == ~Idle(r) /\ requests'[r].pc = "done" /\ requests'[r].response.status = 200

\* authenticate_user returned an active user to the request r
C28_Verified(r) ==
    /\ Bound(requests[r].user)
    /\ requests[r].user.is_active
    /\ requests[r].user = authenticate_user(requests[r].username, requests[r].password)

\* C28: the failure counter of a username is cleared only by a login request
\* in which authenticate_user returned an active user, so a request that
\* skipped or failed the verification leaves the counter as it was, and the
\* tokens are issued only to a request whose credentials were verified
C28_ClearedOnlyAfterVerification ==
    [][/\ \A r \in Requests : C28_Resets(r) \/ C28_Issues(r) => C28_Verified(r)
       /\ \A u \in Usernames :
              redis'.login_failures[u] < redis.login_failures[u] =>
                  \E r \in Requests : /\ C28_Resets(r) /\ C28_Verified(r)
                                      /\ requests[r].username = u]_vars


RECURSIVE C30_Ancestor(_, _, _)
C30_Ancestor(table, d, k) ==
    IF k = 0 THEN d
    ELSE IF d \in DOMAIN table THEN C30_Ancestor(table, table[d], k - 1)
    ELSE NoDept

C30_OwnAncestor(d) == \E k \in 1..Len(sys_dept) : C30_Ancestor(sys_dept, d, k) = d

\* the walk of the request r, over the table as it is, reaches a root or the
\* department being updated
C30_WalkEnds(r) ==
    \E k \in 0..Len(sys_dept) :
        C30_Ancestor(sys_dept, requests[r].current_parent_id, k)
            \in {NoDept, requests[r].dept_id}

====
